---- MODULE Spec2Model ----
(***************************************************************************)
(* Occurrence resolution of the CalDAV-to-Mastodon worker (src/index.js):  *)
(* the four selection modes (checkAndPostEvents, checkAndPostDayEvents,    *)
(* checkAndPostNextEvent, getWebEvents), the DAYS_AHEAD normalization, the *)
(* (uid, start) deduplication and the sequential posting loops.            *)
(*                                                                         *)
(* Time is counted in ticks; a calendar day has TicksPerDay ticks, an      *)
(* instant is a natural number of ticks, and the worker's local time zone  *)
(* is UTC (no daylight-saving shifts).                                     *)
(***************************************************************************)
EXTENDS Integers, Sequences, FiniteSets, TLC

VARIABLES
    now,              \* the instant read by new Date() / Date.now() of the run
    calendar,         \* the components the calendar provider holds
    pc,               \* "idle" | "fetching" | "posting" | "done"
    op,               \* "none" | "post" | "day" | "next" | "web"
    daysAheadStr,     \* env.DAYS_AHEAD, a sequence of characters
    uniqueDays,       \* the normalized offsets of the day poster
    buttonDays,       \* the normalized offsets getWebInterface labels its button with
    fetchDays,        \* the `days` argument handed to fetchCalendarEvents
    rawEvents,        \* the components the fetch returned
    allEventsToPost,  \* day poster: the concatenated list before deduplication
    offsetOf,         \* history: offsetOf[i] is the offset that produced allEventsToPost[i]
    events,           \* eventsToPost / uniqueEvents / eventsToConsider / eventsToDisplay
    idx,              \* position of the next post in events
    attempted,        \* occurrences handed to postToMastodon, in order
    posted,           \* occurrences the announcement target accepted, in order
    result,           \* "pending" | "ok" | "error"
    error,            \* "none" | "fetch" | "rule" | "post" | "json"
    count,            \* the count field of the returned result (-1: none)
    response,         \* the calendar provider's response (ok, status, body)
    message,          \* error.message of the thrown Error, a sequence of strings
    route,            \* the path of the request being handled ("none": no request)
    daysParam,        \* url.searchParams.get('days') of a GET /api/events request
    httpResponse,     \* how the handler ended: the Response of fetch, or the
                      \* completion of scheduled
    previewEvent,     \* the listed event handed to calculateNextOccurrence
    clientNow,        \* new Date() in the page: day, time of day, milliseconds
    nextDate,         \* what calculateNextOccurrence returned
    globalEvents      \* the list of getWebEvents the page holds

vars == <<now, calendar, pc, op, daysAheadStr, uniqueDays, buttonDays, fetchDays,
          rawEvents,
          allEventsToPost, offsetOf, events, idx, attempted, posted, result,
          error, count, response, message, route, daysParam, httpResponse,
          previewEvent, clientNow, nextDate, globalEvents>>

\* the state of the page's recurrence preview
previewVars == <<previewEvent, clientNow, nextDate, globalEvents>>

\* the request and the Response of the fetch handler
requestVars == <<route, daysParam>>

----------------------------------------------------------------------------
(* Bounds of the model *)

TicksPerDay == 2
MaxEvents == 2
MaxLen == 4
MaxTokens == 5
MsPerTick == 2
MaxSetPos == 5
MaxInterval == 3

(* Program constants *)

HoursPerDay == 24
UpcomingHours == 360
DefaultFetchDays == 14
NextEventDays == 14
MaxOffset == 15
MaxOffsets == 4
DefaultOffset == 1
WeekDays == 7

Null == "null"

----------------------------------------------------------------------------
(* Time arithmetic *)

Days(n) == n * TicksPerDay

Hours(h) == (h * TicksPerDay) \div HoursPerDay

\* Date.setHours(0, 0, 0, 0)
StartOfDay(t) == t - (t % TicksPerDay)

\* Date.toISOString(): the calendar date and the time of day, as text
ToISOString(t) == [date |-> t \div TicksPerDay, time |-> t % TicksPerDay]

\* new Date(isoString)
DateParse(s) == s.date * TicksPerDay + s.time

----------------------------------------------------------------------------
(* Sequences *)

Min(a, b) == IF a <= b THEN a ELSE b

RECURSIVE Concat(_)
\* the concatenation of a sequence of sequences (consecutive push calls)
Concat(ss) == IF ss = <<>> THEN <<>> ELSE Head(ss) \o Concat(Tail(ss))

Range(s) == {s[i] : i \in 1..Len(s)}

----------------------------------------------------------------------------
(* Components and recurrence rules *)

\* RRule.parseString on the rule strings of the model: the period of the
\* rule and its COUNT (0 when it has none), or a thrown error for a string
\* with an unknown property
RRuleParseString(s) ==
    CASE s = "FREQ=DAILY;COUNT=2" -> [ok |-> TRUE, period |-> Days(1), count |-> 2]
      [] s = "FREQ=WEEKLY"        -> [ok |-> TRUE, period |-> Days(WeekDays), count |-> 0]
      [] OTHER                    -> [ok |-> FALSE, period |-> 0, count |-> 0]

RECURSIVE BetweenFrom(_, _, _, _, _, _)
\* the occurrences t, t + period, ... between the two instants, in
\* ascending order; left is the number of occurrences the rule still has,
\* -1 when it has no COUNT
BetweenFrom(t, period, left, after, before, inc) ==
    IF left = 0 \/ t > before \/ (~inc /\ t = before)
    THEN <<>>
    ELSE (IF t > after \/ (inc /\ t = after) THEN <<t>> ELSE <<>>)
         \o BetweenFrom(t + period, period, IF left > 0 THEN left - 1 ELSE left,
                        after, before, inc)

\* new RRule({...RRule.parseString(rule), dtstart}).between(after, before, inc)
RRuleBetween(dtstart, rule, after, before, inc) ==
    LET options == RRuleParseString(rule)
    IN  BetweenFrom(dtstart, options.period,
                    IF options.count = 0 THEN -1 ELSE options.count,
                    after, before, inc)

\* a component's rule string cannot be parsed
Malformed(vevent) == vevent.rrule # Null /\ ~RRuleParseString(vevent.rrule).ok

\* some component of the list makes RRule.parseString throw
ParseThrows(raw) == \E i \in 1..Len(raw) : Malformed(raw[i])

\* the occurrence object pushed for a component at an instant (summary,
\* location and description are copied from the component and url is null)
Occurrence(vevent, t) == [uid |-> vevent.uid, start |-> ToISOString(t)]

\* the same with the raw rule string, as getWebEvents pushes it
WebOccurrence(vevent, t) ==
    [uid |-> vevent.uid, start |-> ToISOString(t), rrule |-> vevent.rrule]

----------------------------------------------------------------------------
(* checkAndPostEvents: general-upcoming selection *)

\* a limit of two weeks
UpcomingLimitTwoWeeks(t) == t + Days(NextEventDays)

\* upcomingLimit: now + 360 hours
UpcomingLimit(t) == t + Hours(UpcomingHours)

\* the selection with rule.between(now, upcomingLimit, true)
PostEventsOfInclusive(vevent, t) ==
    IF vevent.rrule # Null
    THEN LET occurrences == RRuleBetween(vevent.dtstart, vevent.rrule,
                               t, UpcomingLimit(t), TRUE)
         IN  [i \in 1..Len(occurrences) |-> Occurrence(vevent, occurrences[i])]
    ELSE IF vevent.dtstart > t /\ vevent.dtstart < UpcomingLimit(t)
         THEN <<Occurrence(vevent, vevent.dtstart)>>
         ELSE <<>>

PostEventsOf(vevent, t) ==
    IF vevent.rrule # Null
    THEN LET occurrences == RRuleBetween(vevent.dtstart, vevent.rrule,
                               t, UpcomingLimit(t), FALSE)
         IN  [i \in 1..Len(occurrences) |-> Occurrence(vevent, occurrences[i])]
    ELSE IF vevent.dtstart > t /\ vevent.dtstart < UpcomingLimit(t)
         THEN <<Occurrence(vevent, vevent.dtstart)>>
         ELSE <<>>

EventsToPost(raw, t) == Concat([i \in 1..Len(raw) |-> PostEventsOf(raw[i], t)])

----------------------------------------------------------------------------
(* checkAndPostNextEvent: next-event selection *)

NextLimit(t) == t + Days(NextEventDays)

\* the selection without the occurrence > now test
NextEventsOfUnfiltered(vevent, t) ==
    IF vevent.rrule # Null
    THEN LET occurrences == RRuleBetween(vevent.dtstart, vevent.rrule,
                               t, NextLimit(t), TRUE)
         IN  [i \in 1..Len(occurrences) |-> Occurrence(vevent, occurrences[i])]
    ELSE IF vevent.dtstart > t /\ vevent.dtstart < NextLimit(t)
         THEN <<Occurrence(vevent, vevent.dtstart)>>
         ELSE <<>>

NextEventsOf(vevent, t) ==
    IF vevent.rrule # Null
    THEN LET occurrences == RRuleBetween(vevent.dtstart, vevent.rrule,
                               t, NextLimit(t), TRUE)
             future == SelectSeq(occurrences, LAMBDA o : o > t)
         IN  [i \in 1..Len(future) |-> Occurrence(vevent, future[i])]
    ELSE IF vevent.dtstart > t /\ vevent.dtstart < NextLimit(t)
         THEN <<Occurrence(vevent, vevent.dtstart)>>
         ELSE <<>>

RECURSIVE InsertBeforeEqual(_, _)
\* an insertion that places e before the elements with an equal start
InsertBeforeEqual(e, sorted) ==
    IF sorted = <<>> THEN <<e>>
    ELSE IF DateParse(Head(sorted).start) - DateParse(e.start) < 0
         THEN <<Head(sorted)>> \o InsertBeforeEqual(e, Tail(sorted))
         ELSE <<e>> \o sorted

RECURSIVE InsertByStart(_, _)
\* places e after every element whose start is not later than e's
InsertByStart(e, sorted) ==
    IF sorted = <<>> THEN <<e>>
    ELSE IF DateParse(Head(sorted).start) - DateParse(e.start) <= 0
         THEN <<Head(sorted)>> \o InsertByStart(e, Tail(sorted))
         ELSE <<e>> \o sorted

RECURSIVE SortByStart(_)
\* Array.prototype.sort((a, b) => new Date(a.start) - new Date(b.start)),
\* which is stable
SortByStart(s) ==
    IF s = <<>> THEN <<>>
    ELSE InsertByStart(s[Len(s)], SortByStart(SubSeq(s, 1, Len(s) - 1)))

\* the list without the sort
EventsToConsiderUnsorted(raw, t) ==
    Concat([i \in 1..Len(raw) |-> NextEventsOf(raw[i], t)])

EventsToConsider(raw, t) ==
    SortByStart(Concat([i \in 1..Len(raw) |-> NextEventsOf(raw[i], t)]))

----------------------------------------------------------------------------
(* getWebEvents: list-range selection *)

WebLimit(t, days) == t + Days(days)

WebEventsOf(vevent, t, days) ==
    IF vevent.rrule # Null
    THEN LET occurrences == RRuleBetween(vevent.dtstart, vevent.rrule,
                               t, WebLimit(t, days), FALSE)
         IN  [i \in 1..Len(occurrences) |-> WebOccurrence(vevent, occurrences[i])]
    ELSE IF vevent.dtstart > t /\ vevent.dtstart < WebLimit(t, days)
         THEN <<[uid |-> vevent.uid, start |-> ToISOString(vevent.dtstart),
                 rrule |-> Null]>>
         ELSE <<>>

\* the list without the final sort
EventsToDisplayUnsorted(raw, t, days) ==
    Concat([i \in 1..Len(raw) |-> WebEventsOf(raw[i], t, days)])

EventsToDisplay(raw, t, days) ==
    SortByStart(Concat([i \in 1..Len(raw) |-> WebEventsOf(raw[i], t, days)]))

----------------------------------------------------------------------------
(* DAYS_AHEAD normalization.  A string is a sequence of characters. *)

Digits == {"0", "1", "2", "3", "4", "5", "6", "7", "8", "9"}

DigitValue(c) ==
    CASE c = "0" -> 0 [] c = "1" -> 1 [] c = "2" -> 2 [] c = "3" -> 3
      [] c = "4" -> 4 [] c = "5" -> 5 [] c = "6" -> 6 [] c = "7" -> 7
      [] c = "8" -> 8 [] c = "9" -> 9

RECURSIVE SplitFrom(_, _)
SplitFrom(str, cur) ==
    IF str = <<>> THEN <<cur>>
    ELSE IF Head(str) = ","
         THEN <<cur>> \o SplitFrom(Tail(str), <<>>)
         ELSE SplitFrom(Tail(str), Append(cur, Head(str)))

\* String.prototype.split(',')
Split(str) == SplitFrom(str, <<>>)

RECURSIVE TrimStart(_)
TrimStart(str) ==
    IF str # <<>> /\ Head(str) = " " THEN TrimStart(Tail(str)) ELSE str

RECURSIVE TrimEnd(_)
TrimEnd(str) ==
    IF str # <<>> /\ str[Len(str)] = " "
    THEN TrimEnd(SubSeq(str, 1, Len(str) - 1))
    ELSE str

\* String.prototype.trim()
Trim(str) == TrimEnd(TrimStart(str))

RECURSIVE DigitPrefix(_)
\* the longest prefix of decimal digits
DigitPrefix(str) ==
    IF str # <<>> /\ Head(str) \in Digits
    THEN <<Head(str)>> \o DigitPrefix(Tail(str))
    ELSE <<>>

RECURSIVE DecimalValue(_)
DecimalValue(ds) ==
    IF ds = <<>> THEN 0
    ELSE DecimalValue(SubSeq(ds, 1, Len(ds) - 1)) * 10 + DigitValue(ds[Len(ds)])

\* parseInt(str) for strings without a radix prefix: leading white space is
\* skipped, a sign is read, then the longest run of digits; NaN without one
ParseInt(str) ==
    LET t      == TrimStart(str)
        signed == t # <<>> /\ Head(t) \in {"-", "+"}
        body   == IF signed THEN Tail(t) ELSE t
        ds     == DigitPrefix(body)
    IN  IF ds = <<>> THEN [nan |-> TRUE, val |-> 0]
        ELSE [nan |-> FALSE,
              val |-> IF signed /\ Head(t) = "-" THEN 0 - DecimalValue(ds)
                      ELSE DecimalValue(ds)]

\* d => !isNaN(d) && d >= 0 && d <= 15
ValidDay(d) == ~d.nan /\ d.val >= 0 /\ d.val <= MaxOffset

RECURSIVE SetOrder(_)
\* [...new Set(array)]: the first appearance of each value, in order
SetOrder(a) ==
    IF a = <<>> THEN <<>>
    ELSE LET init == SetOrder(SubSeq(a, 1, Len(a) - 1))
         IN  IF a[Len(a)] \in Range(init) THEN init ELSE Append(init, a[Len(a)])

RECURSIVE InsertNumber(_, _)
InsertNumber(x, sorted) ==
    IF sorted = <<>> THEN <<x>>
    ELSE IF Head(sorted) - x <= 0
         THEN <<Head(sorted)>> \o InsertNumber(x, Tail(sorted))
         ELSE <<x>> \o sorted

RECURSIVE SortNumbers(_)
\* Array.prototype.sort((a, b) => a - b)
SortNumbers(a) ==
    IF a = <<>> THEN <<>>
    ELSE InsertNumber(a[Len(a)], SortNumbers(SubSeq(a, 1, Len(a) - 1)))

\* env.DAYS_AHEAD || '1'
OrDefault(str) == IF str = <<>> THEN <<"1">> ELSE str

\* the chain with the cap applied before the filter
DaysArrayCapFirst(str) ==
    LET parts  == Split(OrDefault(str))
        capped == SubSeq(parts, 1, Min(MaxOffsets, Len(parts)))
        parsed == [i \in 1..Len(capped) |-> ParseInt(Trim(capped[i]))]
        valid  == SelectSeq(parsed, ValidDay)
    IN  [i \in 1..Len(valid) |-> valid[i].val]

\* the split, map, filter and slice chain of checkAndPostDayEvents
DaysArray(str) ==
    LET parts  == Split(OrDefault(str))
        parsed == [i \in 1..Len(parts) |-> ParseInt(Trim(parts[i]))]
        valid  == SelectSeq(parsed, ValidDay)
        values == [i \in 1..Len(valid) |-> valid[i].val]
    IN  SubSeq(values, 1, Min(MaxOffsets, Len(values)))

\* the normalization without the default for an empty result
UniqueDaysNoDefault(str) == SortNumbers(SetOrder(DaysArray(str)))

\* uniqueDays of checkAndPostDayEvents
UniqueDays(str) ==
    LET sorted == SortNumbers(SetOrder(DaysArray(str)))
    IN  IF Len(sorted) = 0 THEN Append(sorted, DefaultOffset) ELSE sorted

\* uniqueDays of getWebInterface, which labels the button
ButtonDays(str) ==
    LET parts  == Split(IF str = <<>> THEN <<"1">> ELSE str)
        parsed == [i \in 1..Len(parts) |-> ParseInt(Trim(parts[i]))]
        kept   == SelectSeq(parsed,
                      LAMBDA d : ~d.nan /\ d.val >= 0 /\ d.val <= MaxOffset)
        capped == SubSeq(kept, 1, Min(MaxOffsets, Len(kept)))
        sorted == SortNumbers(SetOrder([i \in 1..Len(capped) |-> capped[i].val]))
    IN  IF Len(sorted) = 0 THEN <<DefaultOffset>> ELSE sorted

RECURSIVE MaxOf(_)
\* Math.max(...array) of a non-empty array
MaxOf(a) ==
    IF Len(a) = 1 THEN a[1]
    ELSE LET m == MaxOf(Tail(a)) IN IF a[1] >= m THEN a[1] ELSE m

\* the days argument of the day poster's fetch: Math.max(1, maxDays)
\* startDate of fetchCalendarEvents: the range requested begins at now
FetchRangeStart(t) == t

\* endDate of fetchCalendarEvents: now + days * 24 * 60 * 60
FetchRangeEnd(t, days) == t + Days(days)

\* a fetch of as many days as the largest offset
DayFetchDaysNoMargin(days) ==
    IF days = <<>> THEN 1
    ELSE LET maxDays == MaxOf(days)
         IN  IF maxDays >= 1 THEN maxDays ELSE 1

\* (Math.max() of no argument is -Infinity)
DayFetchDays(days) ==
    IF days = <<>> THEN 1
    ELSE LET maxDays == MaxOf(days) + 1
         IN  IF maxDays >= 1 THEN maxDays ELSE 1

----------------------------------------------------------------------------
(* checkAndPostDayEvents: day-targeted selection and deduplication *)

\* targetDate: setDate(now.getDate() + daysAhead); setHours(0, 0, 0, 0)
TargetDate(t, daysAhead) == StartOfDay(t + Days(daysAhead))

\* targetDateEnd: setDate(targetDate.getDate() + 1)
TargetDateEnd(t, daysAhead) == TargetDate(t, daysAhead) + Days(1)

\* the selection with rule.between(targetDate, targetDateEnd)
DayEventsOfExclusive(vevent, t, daysAhead) ==
    IF vevent.rrule # Null
    THEN LET occurrences == RRuleBetween(vevent.dtstart, vevent.rrule,
                               TargetDate(t, daysAhead),
                               TargetDateEnd(t, daysAhead), FALSE)
         IN  [i \in 1..Len(occurrences) |-> Occurrence(vevent, occurrences[i])]
    ELSE IF vevent.dtstart >= TargetDate(t, daysAhead)
            /\ vevent.dtstart < TargetDateEnd(t, daysAhead)
         THEN <<Occurrence(vevent, vevent.dtstart)>>
         ELSE <<>>

DayEventsOf(vevent, t, daysAhead) ==
    IF vevent.rrule # Null
    THEN LET occurrences == RRuleBetween(vevent.dtstart, vevent.rrule,
                               TargetDate(t, daysAhead),
                               TargetDateEnd(t, daysAhead), TRUE)
         IN  [i \in 1..Len(occurrences) |-> Occurrence(vevent, occurrences[i])]
    ELSE IF vevent.dtstart >= TargetDate(t, daysAhead)
            /\ vevent.dtstart < TargetDateEnd(t, daysAhead)
         THEN <<Occurrence(vevent, vevent.dtstart)>>
         ELSE <<>>

\* what one iteration of the loop over uniqueDays pushes
DayEvents(raw, t, daysAhead) ==
    Concat([i \in 1..Len(raw) |-> DayEventsOf(raw[i], t, daysAhead)])

AllEventsToPost(raw, t, days) ==
    Concat([k \in 1..Len(days) |-> DayEvents(raw, t, days[k])])

\* the offset whose iteration pushed each element of AllEventsToPost
OffsetsOfAll(raw, t, days) ==
    Concat([k \in 1..Len(days) |->
              [i \in 1..Len(DayEvents(raw, t, days[k])) |-> days[k]]])

\* a findIndex that compares the uid alone
FindIndexByUid(self, event) ==
    LET hits == {i \in 1..Len(self) : self[i].uid = event.uid}
    IN  IF hits = {} THEN 0 ELSE CHOOSE i \in hits : \A j \in hits : i <= j

\* self.findIndex(e => e.uid === event.uid && e.start === event.start);
\* 0 stands for -1
FindIndex(self, event) ==
    LET hits == {i \in 1..Len(self) :
                   self[i].uid = event.uid /\ self[i].start = event.start}
    IN  IF hits = {} THEN 0 ELSE CHOOSE i \in hits : \A j \in hits : i <= j

RECURSIVE FilterFirst(_, _)
FilterFirst(self, index) ==
    IF index > Len(self) THEN <<>>
    ELSE (IF index = FindIndex(self, self[index]) THEN <<self[index]>> ELSE <<>>)
         \o FilterFirst(self, index + 1)

RECURSIVE FilterRepeats(_, _)
FilterRepeats(self, index) ==
    IF index > Len(self) THEN <<>>
    ELSE (IF index # FindIndex(self, self[index]) THEN <<self[index]>> ELSE <<>>)
         \o FilterRepeats(self, index + 1)

\* a filter with the comparison inverted (index !== findIndex)
UniqueEventsInverted(self) == FilterRepeats(self, 1)

\* the list handed on without the filter
UniqueEventsUnfiltered(self) == self

\* uniqueEvents: allEventsToPost.filter((event, index, self) => ...)
UniqueEvents(self) == FilterFirst(self, 1)

----------------------------------------------------------------------------
(* Inputs of the model *)

\* the instants "now" is drawn from: a midnight and one tick after it
NowSet == {Days(WeekDays), Days(WeekDays) + 1}

\* the components a calendar is drawn from: single events on the boundaries
\* of the four windows and just inside them, recurring events whose
\* occurrences fall on those boundaries, and one with a malformed rule
Components(t) ==
    [uid : {"a"}, rrule : {Null},
     dtstart : {t, t + 1, StartOfDay(t) + Days(1), NextLimit(t), UpcomingLimit(t)}]
    \cup [uid : {"b"}, rrule : {Null}, dtstart : {t + 1}]
    \cup [uid : {"a"}, rrule : {"FREQ=WEEKLY"}, dtstart : {t - Days(WeekDays)}]
    \cup [uid : {"b"}, rrule : {"FREQ=WEEKLY"},
          dtstart : {StartOfDay(t) + Days(1), t + Days(1)}]
    \cup [uid : {"a"}, rrule : {"FREQ=DAILY;COUNT=2"}, dtstart : {StartOfDay(t)}]
    \cup [uid : {"b"}, rrule : {"FOO=BAR"}, dtstart : {t}]

RECURSIVE SeqsUpTo(_, _)
\* the sequences over S of length at most n
SeqsUpTo(S, n) ==
    IF n = 0 THEN {<<>>}
    ELSE LET shorter == SeqsUpTo(S, n - 1)
         IN  shorter \cup {Append(q, x) : q \in shorter, x \in S}

RECURSIVE Join(_)
\* the tokens separated by commas
Join(tokens) ==
    IF tokens = <<>> THEN <<>>
    ELSE IF Len(tokens) = 1 THEN tokens[1]
         ELSE tokens[1] \o <<",">> \o Join(Tail(tokens))

\* values of DAYS_AHEAD: unset, "0", "0,1", "1,1,2,abc,20,-1"
DaysConfigs ==
    {<<>>, <<"0">>, <<"0", ",", "1">>,
     Join(<< <<"1">>, <<"1">>, <<"2">>, <<"a", "b", "c">>, <<"2", "0">>, <<"-", "1">> >>)}

\* values of the days parameter of getWebEvents
WebDays == {NextEventDays, 15}

----------------------------------------------------------------------------
(* The recurrence preview of the page: values *)

\* A Date of the page is its day (days since 1 January 1970), its time of
\* day in ticks (hours, minutes and seconds) and its milliseconds; the zone
\* of the page is UTC.  A rule string is a sequence of atoms: the separators
\* ";" and "=", signs, digits, and words without any of these.

\* no Date: the null calculateNextOccurrence returns
NoDate == [kind |-> "null", day |-> 0, time |-> 0, ms |-> 0]

\* a loop of calculateNextOccurrence that never ends
Hang == [kind |-> "hang", day |-> 0, time |-> 0, ms |-> 0]

\* no event handed to calculateNextOccurrence yet
NoEvent == [rrule |-> <<>>, start |-> ToISOString(0)]

\* Date.prototype.getTime(), in milliseconds of the model
GetTime(d) == (d.day * TicksPerDay + d.time) * MsPerTick + d.ms

\* Date.prototype.getDay(): 0 is Sunday; 1 January 1970 was a Thursday
GetDay(day) == (day + 4) % 7

IsLeapYear(y) == y % 4 = 0 /\ (y % 100 # 0 \/ y % 400 = 0)

\* the number of days of month m, counted from January 1970 = 0
MonthLength(m) ==
    LET inYear == m % 12
    IN  CASE inYear = 1 -> IF IsLeapYear(1970 + m \div 12) THEN 29 ELSE 28
          [] inYear \in {3, 5, 8, 10} -> 30
          [] OTHER -> 31

RECURSIVE FirstOfMonth(_)
\* the day on which month m begins
FirstOfMonth(m) == IF m = 0 THEN 0 ELSE FirstOfMonth(m - 1) + MonthLength(m - 1)

RECURSIVE MonthFrom(_, _)
MonthFrom(day, m) == IF day < FirstOfMonth(m + 1) THEN m ELSE MonthFrom(day, m + 1)

\* Date.prototype.getMonth() together with the year
GetMonth(day) == MonthFrom(day, 0)

\* new Date(event.start)
StartDate(ev) ==
    [kind |-> "date", day |-> DateParse(ev.start) \div TicksPerDay,
     time |-> DateParse(ev.start) % TicksPerDay, ms |-> 0]

RECURSIVE SplitOnFrom(_, _, _)
SplitOnFrom(str, sep, cur) ==
    IF str = <<>> THEN <<cur>>
    ELSE IF Head(str) = sep
         THEN <<cur>> \o SplitOnFrom(Tail(str), sep, <<>>)
         ELSE SplitOnFrom(Tail(str), sep, Append(cur, Head(str)))

\* String.prototype.split(sep)
SplitOn(str, sep) == SplitOnFrom(str, sep, <<>>)

\* rules[name] after parseRRule(rrule): the value of the last part
\* key=value with that key and a non-empty value; <<>> stands for undefined
RuleValue(rrule, name) ==
    LET parts == SplitOn(rrule, ";")
        pairs == [i \in 1..Len(parts) |-> SplitOn(parts[i], "=")]
        hits  == {i \in 1..Len(parts) :
                     /\ Len(pairs[i]) >= 2
                     /\ pairs[i][1] = <<name>>
                     /\ pairs[i][2] # <<>>}
    IN  IF rrule = <<>> \/ hits = {} THEN <<>>
        ELSE pairs[CHOOSE i \in hits : \A j \in hits : j <= i][2]

\* a % n of JavaScript for n > 0: the sign of the result is that of a
JsRemainder(a, n) == IF a >= 0 THEN a % n ELSE 0 - ((0 - a) % n)

\* dayMap
DayMap == [SU |-> 0, MO |-> 1, TU |-> 2, WE |-> 3, TH |-> 4, FR |-> 5, SA |-> 6]

RECURSIVE NextWeekday(_, _)
\* while (nextDate.getDay() !== dayOfWeek) nextDate.setDate(getDate() + 1)
NextWeekday(day, dayOfWeek) ==
    IF GetDay(day) = dayOfWeek THEN day ELSE NextWeekday(day + 1, dayOfWeek)

\* a search for the weekday that starts from today
FirstCandidateToday(n) == n.day

\* nextDate.setDate(nextDate.getDate() + 1): start from tomorrow
FirstCandidate(n) == n.day + 1

\* the WEEKLY branch: the day of the estimate
WeeklyDay(startDate, n, interval) ==
    LET found == NextWeekday(FirstCandidate(n), GetDay(startDate.day))
        weeksSinceStart ==
            (GetTime([n EXCEPT !.day = found]) - GetTime(startDate))
                \div (WeekDays * TicksPerDay * MsPerTick)
        weeksUntilNext ==
            interval.val - JsRemainder(weeksSinceStart, interval.val)
    IN  IF ~interval.nan /\ interval.val > 1 /\ weeksUntilNext < interval.val
        THEN found + weeksUntilNext * WeekDays
        ELSE found

RECURSIVE CountWeekdays(_, _, _, _)
\* the loop that counts matching weekdays up to bySetPos
CountWeekdays(day, targetDay, occurrenceCount, bySetPos) ==
    IF occurrenceCount >= bySetPos THEN day
    ELSE LET counted == IF GetDay(day) = targetDay THEN occurrenceCount + 1
                        ELSE occurrenceCount
         IN  IF counted < bySetPos
             THEN CountWeekdays(day + 1, targetDay, counted, bySetPos)
             ELSE day

\* a test that leaves BYDAY out: if (bySetPos)
MonthlyPatternAnyDay(freq, byDay, bySetPos) ==
    freq = <<"MONTHLY">> /\ ~bySetPos.nan /\ bySetPos.val # 0

\* if (freq === 'MONTHLY') ... if (byDay && bySetPos)
MonthlyPattern(freq, byDay, bySetPos) ==
    freq = <<"MONTHLY">> /\ byDay # <<>> /\ ~bySetPos.nan /\ bySetPos.val # 0

\* calculateNextOccurrence(event) when new Date() is n
CalculateNextOccurrence(ev, n) ==
    LET startDate == StartDate(ev)
        freq      == RuleValue(ev.rrule, "FREQ")
        given     == RuleValue(ev.rrule, "INTERVAL")
        interval  == ParseInt(IF given = <<>> THEN <<"1">> ELSE given)
        byDay     == RuleValue(ev.rrule, "BYDAY")
        pos       == RuleValue(ev.rrule, "BYSETPOS")
        bySetPos  == ParseInt(IF pos = <<>> THEN <<"1">> ELSE pos)
    IN  IF ev.rrule = <<>> THEN NoDate
        ELSE IF freq = <<"WEEKLY">>
        THEN [kind |-> "date", day |-> WeeklyDay(startDate, n, interval),
              time |-> startDate.time, ms |-> n.ms]
        ELSE IF MonthlyPattern(freq, byDay, bySetPos)
        THEN IF bySetPos.val > 0
                /\ ~(Len(byDay) = 1 /\ byDay[1] \in DOMAIN DayMap)
             THEN Hang
             ELSE [kind |-> "date",
                   day |-> IF bySetPos.val > 0
                           THEN CountWeekdays(FirstOfMonth(GetMonth(n.day) + 1),
                                              DayMap[byDay[1]], 0, bySetPos.val)
                           ELSE FirstOfMonth(GetMonth(n.day) + 1),
                   time |-> startDate.time, ms |-> n.ms]
        ELSE NoDate

----------------------------------------------------------------------------
(* Errors and responses *)

\* no response of the calendar provider yet
NoResponse == [ok |-> FALSE, status |-> "none", body |-> ""]

\* a successful response of the calendar provider
OkResponse == [ok |-> TRUE, status |-> "200", body |-> "jcal"]

\* the non-success responses of the calendar provider
ErrorResponses ==
    {[ok |-> FALSE, status |-> "404", body |-> "Not Found"],
     [ok |-> FALSE, status |-> "503", body |-> ""]}

\* `CalDAV export failed: ${response.status} - ${errorText}`
FetchError(r) == <<"CalDAV export failed: ", r.status, " - ", r.body>>

\* the message of the Error RRule.parseString throws for a rule string
RuleError(raw) ==
    LET i == CHOOSE i \in 1..Len(raw) :
                 Malformed(raw[i]) /\ \A j \in 1..(i - 1) : ~Malformed(raw[j])
    IN  <<"Unknown RRULE property in ", raw[i].rrule>>

\* `Failed to post to Mastodon: ${error}`
PostError(text) == <<"Failed to post to Mastodon: ", text>>

\* no Response: the operation was not called by the fetch handler, or the
\* handler has not returned
NoReply == [status |-> 0, kind |-> "none", message |-> <<>>, count |-> -1,
            events |-> <<>>]

\* a scheduled handler without its catch: the error leaves the handler
ScheduledRethrow(msg) ==
    [status |-> 0, kind |-> "rejected", message |-> msg, count |-> -1,
     events |-> <<>>]

\* the catch block of scheduled: console.error('Error in scheduled
\* function:', error), then the handler completes
ScheduledCatch(msg) ==
    [status |-> 0, kind |-> "logged",
     message |-> <<"Error in scheduled function:">> \o msg, count |-> -1,
     events |-> <<>>]

\* a catch block that answers with the message and the default status
ErrorReplyOk(path, msg) ==
    [status |-> 200,
     kind |-> CASE path \in {"/post", "/post/event"} -> "text"
                [] path = "/api/events" -> "error"
                [] OTHER -> "failure",
     message |-> IF path \in {"/post", "/post/event"} THEN <<"Error: ">> \o msg
                 ELSE msg,
     count |-> -1,
     events |-> <<>>]

\* the Response of a catch block: status 500 with error.message, as text
\* for /post and /post/event, as {error} for /api/events, as
\* {success: false, message} for the other routes
ErrorReply(path, msg) ==
    IF path = "scheduled" THEN ScheduledCatch(msg) ELSE
    [status |-> 500,
     kind |-> CASE path \in {"/post", "/post/event"} -> "text"
                [] path = "/api/events" -> "error"
                [] OTHER -> "failure",
     message |-> IF path \in {"/post", "/post/event"} THEN <<"Error: ">> \o msg
                 ELSE msg,
     count |-> -1,
     events |-> <<>>]

RECURSIVE JoinNumbers(_)
\* Array.prototype.join(',') of an array of numbers
JoinNumbers(a) ==
    IF a = <<>> THEN <<>>
    ELSE IF Len(a) = 1 THEN <<ToString(a[1])>>
         ELSE <<ToString(a[1]), ",">> \o JoinNumbers(Tail(a))

\* dayLabel of checkAndPostDayEvents
DayLabel(days) ==
    IF Len(days) = 1
    THEN <<ToString(days[1]), " ", IF days[1] = 1 THEN "day" ELSE "days">>
    ELSE JoinNumbers(days) \o <<" days">>

\* the message of the result object an operation returns with count n
ResultMessage(o, days, n) ==
    CASE o = "day" /\ n = 0 -> DayLabel(days) \o <<": No events found">>
      [] o = "day" /\ n > 0 ->
            DayLabel(days) \o <<": Posted ", ToString(n), " ",
                                IF n = 1 THEN "event" ELSE "events">>
      [] o = "next" /\ n = 0 -> <<"No events found in next 14 days">>
      [] o = "next" /\ n > 0 -> <<"Posted next upcoming event">>
      [] OTHER -> <<>>

\* the Response of a try block: status 200 with a fixed text for /post and
\* /post/event, the list for /api/events, the result object otherwise; the
\* try block of scheduled completes without a value
OkReply(path, o, days, n, list) ==
    IF path = "scheduled"
    THEN [status |-> 0, kind |-> "completed", message |-> <<>>, count |-> -1,
          events |-> <<>>]
    ELSE
    [status |-> 200,
     kind |-> CASE path \in {"/post", "/post/event"} -> "text"
                [] path = "/api/events" -> "events"
                [] OTHER -> "result",
     message |-> CASE path = "/post" -> <<"Calendar check completed">>
                   [] path = "/post/event" -> <<"Event posted successfully">>
                   [] path = "/api/events" -> <<>>
                   [] OTHER -> ResultMessage(o, days, n),
     count |-> IF path \in {"/post", "/post/event", "/api/events"} THEN -1 ELSE n,
     events |-> IF path = "/api/events" THEN list ELSE <<>>]

\* no days parameter in the query string: searchParams.get returns null
NoParam == [present |-> FALSE, value |-> <<>>]

\* the Response for a days parameter out of range
BadRequestReply ==
    [status |-> 400, kind |-> "error",
     message |-> <<"Invalid days parameter. Must be between 1 and 28.">>,
     count |-> -1, events |-> <<>>]

----------------------------------------------------------------------------
(* The worker: one run of one operation *)

Init ==
    /\ now \in NowSet
    /\ calendar \in SeqsUpTo(Components(now), MaxEvents)
    /\ pc = "idle"
    /\ op = "none"
    /\ daysAheadStr = <<>>
    /\ uniqueDays = <<>>
    /\ buttonDays = <<>>
    /\ fetchDays = 0
    /\ rawEvents = <<>>
    /\ allEventsToPost = <<>>
    /\ offsetOf = <<>>
    /\ events = <<>>
    /\ idx = 0
    /\ attempted = <<>>
    /\ posted = <<>>
    /\ result = "pending"
    /\ error = "none"
    /\ count = -1
    /\ response = NoResponse
    /\ message = <<>>
    /\ route = "none"
    /\ daysParam = NoParam
    /\ httpResponse = NoReply
    /\ previewEvent = NoEvent
    /\ globalEvents = <<>>
    /\ clientNow = NoDate
    /\ nextDate = NoDate

\* the run starts and awaits fetchCalendarEvents(env, days)
Fetch(o, days) ==
    /\ pc = "idle"
    /\ pc' = "fetching"
    /\ op' = o
    /\ fetchDays' = days
    /\ UNCHANGED <<now, calendar, previewVars, buttonDays, rawEvents,
                   allEventsToPost, offsetOf, events, idx, attempted, posted,
                   result, error, count, response, message, httpResponse>>

StartPost ==
    Fetch("post", DefaultFetchDays)
    /\ UNCHANGED <<daysAheadStr, uniqueDays, requestVars>>

StartDay ==
    \E str \in DaysConfigs :
        /\ daysAheadStr' = str
        /\ uniqueDays' = UniqueDays(str)
        /\ Fetch("day", DayFetchDays(UniqueDays(str)))
        /\ UNCHANGED requestVars

StartNext ==
    Fetch("next", NextEventDays)
    /\ UNCHANGED <<daysAheadStr, uniqueDays, requestVars>>

StartWeb ==
    \E days \in WebDays :
        Fetch("web", days) /\ UNCHANGED <<daysAheadStr, uniqueDays, requestVars>>

\* the function throws: the run ends in failure, and the catch block of the
\* fetch handler, when it made the call, answers with the message
Throw(kind, msg) ==
    /\ pc' = "done"
    /\ result' = "error"
    /\ error' = kind
    /\ message' = msg
    /\ httpResponse' = IF route = "none" THEN httpResponse
                       ELSE ErrorReply(route, msg)

\* the function returns with count n (and, for getWebEvents, the list),
\* and the fetch handler, when it made the call, answers
ReturnWith(n, list) ==
    /\ pc' = "done"
    /\ result' = "ok"
    /\ count' = n
    /\ httpResponse' = IF route = "none" THEN httpResponse
                       ELSE OkReply(route, op, uniqueDays, n, list)
    /\ UNCHANGED <<error, message>>

Return(n) == ReturnWith(n, <<>>)

\* a calendar provider whose non-success response is not looked at: the
\* run goes on with no components
FetchFailIgnored ==
    /\ pc = "fetching"
    /\ \E r \in ErrorResponses : response' = r
    /\ Return(0)
    /\ UNCHANGED <<now, calendar, previewVars, requestVars, op, daysAheadStr,
                   uniqueDays, buttonDays, fetchDays, rawEvents, allEventsToPost,
                   offsetOf, events, idx, attempted, posted>>

\* the calendar provider answers with a non-success status
FetchFail ==
    /\ pc = "fetching"
    /\ \E r \in ErrorResponses :
          /\ response' = r
          /\ Throw("fetch", FetchError(r))
    /\ UNCHANGED <<now, calendar, previewVars, requestVars, op, daysAheadStr,
                   uniqueDays, buttonDays, fetchDays, rawEvents, allEventsToPost,
                   offsetOf, events, idx, attempted, posted, count>>

\* loops that catch the error of RRule.parseString and end with nothing
\* to post
SelectedSwallowing(list, emptyCount) ==
    /\ response' = OkResponse
    /\ rawEvents' = calendar
    /\ IF ParseThrows(calendar)
       THEN /\ events' = <<>>
            /\ Return(emptyCount) /\ UNCHANGED idx
       ELSE /\ events' = list
            /\ IF list = <<>>
               THEN Return(emptyCount) /\ UNCHANGED idx
               ELSE /\ pc' = "posting"
                    /\ idx' = 1
                    /\ UNCHANGED <<result, error, count, message, httpResponse>>
    /\ UNCHANGED <<now, calendar, previewVars, requestVars, op, daysAheadStr,
                   uniqueDays, buttonDays, fetchDays, attempted, posted>>

\* after the loops that build the list: throw, return or start posting
Selected(list, emptyCount) ==
    /\ response' = OkResponse
    /\ rawEvents' = calendar
    /\ IF ParseThrows(calendar)
       THEN /\ Throw("rule", RuleError(calendar))
            /\ UNCHANGED <<events, idx, count>>
       ELSE /\ events' = list
            /\ IF list = <<>>
               THEN Return(emptyCount) /\ UNCHANGED idx
               ELSE /\ pc' = "posting"
                    /\ idx' = 1
                    /\ UNCHANGED <<result, error, count, message, httpResponse>>
    /\ UNCHANGED <<now, calendar, previewVars, requestVars, op, daysAheadStr,
                   uniqueDays, buttonDays, fetchDays, attempted, posted>>

CheckAndPostEvents ==
    /\ pc = "fetching" /\ op = "post"
    /\ Selected(EventsToPost(calendar, now), -1)
    /\ UNCHANGED <<allEventsToPost, offsetOf>>

CheckAndPostDayEvents ==
    /\ pc = "fetching" /\ op = "day"
    /\ Selected(UniqueEvents(AllEventsToPost(calendar, now, uniqueDays)), 0)
    /\ IF ParseThrows(calendar)
       THEN UNCHANGED <<allEventsToPost, offsetOf>>
       ELSE /\ allEventsToPost' = AllEventsToPost(calendar, now, uniqueDays)
            /\ offsetOf' = OffsetsOfAll(calendar, now, uniqueDays)

CheckAndPostNextEvent ==
    /\ pc = "fetching" /\ op = "next"
    /\ Selected(EventsToConsider(calendar, now), 0)
    /\ UNCHANGED <<allEventsToPost, offsetOf>>

GetWebEvents ==
    /\ pc = "fetching" /\ op = "web"
    /\ response' = OkResponse
    /\ rawEvents' = calendar
    /\ IF ParseThrows(calendar)
       THEN Throw("rule", RuleError(calendar)) /\ UNCHANGED <<events, count>>
       ELSE /\ events' = EventsToDisplay(calendar, now, fetchDays)
            /\ ReturnWith(-1, EventsToDisplay(calendar, now, fetchDays))
    /\ UNCHANGED <<now, calendar, previewVars, requestVars, op, daysAheadStr,
                   uniqueDays, buttonDays, fetchDays, allEventsToPost, offsetOf,
                   idx, attempted, posted>>

\* the number of posts the running operation issues when none fails
PostsDue == IF op = "next" THEN 1 ELSE Len(events)

\* a count that is the length of the list, whatever was posted
FinalCountListed == IF op \in {"post", "event"} THEN -1 ELSE Len(events)

\* the count the operation reports after its last post
FinalCount == IF op \in {"post", "event"} THEN -1 ELSE PostsDue

\* a failed post that is logged and skipped
PostFailSkipped ==
    /\ pc = "posting"
    /\ attempted' = Append(attempted, events[idx])
    /\ IF idx = PostsDue
       THEN Return(FinalCount) /\ UNCHANGED idx
       ELSE /\ idx' = idx + 1
            /\ UNCHANGED <<pc, result, error, count, message, httpResponse>>
    /\ UNCHANGED <<now, calendar, previewVars, requestVars, response, op,
                   daysAheadStr, uniqueDays, buttonDays, fetchDays, rawEvents,
                   allEventsToPost, offsetOf, events, posted>>

\* postToMastodon(env, events[idx]) succeeds
PostOk ==
    /\ pc = "posting"
    /\ attempted' = Append(attempted, events[idx])
    /\ posted' = Append(posted, events[idx])
    /\ IF idx = PostsDue
       THEN Return(FinalCount) /\ UNCHANGED idx
       ELSE /\ idx' = idx + 1
            /\ UNCHANGED <<pc, result, error, count, message, httpResponse>>
    /\ UNCHANGED <<now, calendar, previewVars, requestVars, response, op,
                   daysAheadStr, uniqueDays, buttonDays, fetchDays, rawEvents,
                   allEventsToPost, offsetOf, events>>

\* the announcement target rejects the post: postToMastodon throws
PostFail ==
    /\ pc = "posting"
    /\ attempted' = Append(attempted, events[idx])
    /\ Throw("post", PostError("Unauthorized"))
    /\ UNCHANGED <<now, calendar, previewVars, requestVars, response, op,
                   daysAheadStr, uniqueDays, buttonDays, fetchDays, rawEvents,
                   allEventsToPost, offsetOf, events, idx, posted, count>>

Next ==
    \/ StartPost
    \/ StartDay
    \/ StartNext
    \/ StartWeb
    \/ FetchFail
    \/ CheckAndPostEvents
    \/ CheckAndPostDayEvents
    \/ CheckAndPostNextEvent
    \/ GetWebEvents
    \/ PostOk
    \/ PostFail

Spec == Init /\ [][Next]_vars

----------------------------------------------------------------------------
(* The fetch handler: one request, routed to its operation *)

MaxListDays == 28

\* the '14' that stands in for a missing or empty days parameter
DefaultDaysParam == <<"1", "4">>

\* the components the calendar of a request is drawn from
HttpComponents(t) ==
    [uid : {"a"}, rrule : {Null}, dtstart : {t + 1}]
    \cup [uid : {"b"}, rrule : {Null}, dtstart : {t + Days(MaxListDays - 3)}]
    \cup [uid : {"a"}, rrule : {"FREQ=WEEKLY"}, dtstart : {t - Days(WeekDays)}]
    \cup [uid : {"b"}, rrule : {"FOO=BAR"}, dtstart : {t}]

\* values of DAYS_AHEAD: unset and "0,1"
HttpDaysConfigs == {<<>>, <<"0", ",", "1">>}

\* values of the days parameter: none, "", "0", "1", "14", "24", "25",
\* "28", "29", "-1", "abc", "7x", "1.5"
DaysParams ==
    {NoParam} \cup
    [present : {TRUE},
     value : {<<>>, <<"0">>, <<"1">>, <<"1", "4">>, <<"2", "4">>, <<"2", "5">>,
              <<"2", "8">>, <<"2", "9">>, <<"-", "1">>, <<"a", "b", "c">>,
              <<"7", "x">>, <<"1", ".", "5">>}]

\* what request.json() gives for the body of POST /post/event: a thrown
\* SyntaxError, null, or an event object
EventBodies(t) ==
    {[json |-> FALSE, null |-> FALSE, event |-> [uid |-> "a", start |-> ToISOString(t)]],
     [json |-> TRUE, null |-> TRUE, event |-> [uid |-> "a", start |-> ToISOString(t)]],
     [json |-> TRUE, null |-> FALSE, event |-> [uid |-> "a", start |-> ToISOString(t + 1)]]}

InitHttp ==
    /\ now \in NowSet
    /\ calendar \in SeqsUpTo(HttpComponents(now), MaxEvents)
    /\ pc = "idle"
    /\ op = "none"
    /\ daysAheadStr = <<>>
    /\ uniqueDays = <<>>
    /\ buttonDays = <<>>
    /\ fetchDays = 0
    /\ rawEvents = <<>>
    /\ allEventsToPost = <<>>
    /\ offsetOf = <<>>
    /\ events = <<>>
    /\ idx = 0
    /\ attempted = <<>>
    /\ posted = <<>>
    /\ result = "pending"
    /\ error = "none"
    /\ count = -1
    /\ response = NoResponse
    /\ message = <<>>
    /\ route = "none"
    /\ daysParam = NoParam
    /\ httpResponse = NoReply
    /\ previewEvent = NoEvent
    /\ globalEvents = <<>>
    /\ clientNow = NoDate
    /\ nextDate = NoDate

\* POST /post
RequestPost ==
    /\ route' = "/post"
    /\ Fetch("post", DefaultFetchDays)
    /\ UNCHANGED <<daysAheadStr, uniqueDays, daysParam>>

\* POST /post/day and POST /post/tomorrow
RequestPostDay ==
    \E path \in {"/post/day", "/post/tomorrow"}, str \in HttpDaysConfigs :
        /\ route' = path
        /\ daysAheadStr' = str
        /\ uniqueDays' = UniqueDays(str)
        /\ Fetch("day", DayFetchDays(UniqueDays(str)))
        /\ UNCHANGED daysParam

\* the cron trigger: scheduled calls checkAndPostDayEvents
Scheduled ==
    \E str \in HttpDaysConfigs :
        /\ route' = "scheduled"
        /\ daysAheadStr' = str
        /\ uniqueDays' = UniqueDays(str)
        /\ Fetch("day", DayFetchDays(UniqueDays(str)))
        /\ UNCHANGED daysParam

\* POST /post/next
RequestPostNext ==
    /\ route' = "/post/next"
    /\ Fetch("next", NextEventDays)
    /\ UNCHANGED <<daysAheadStr, uniqueDays, daysParam>>

\* POST /post/event: the body is parsed and handed to postToMastodon,
\* whose first statement reads event.start
RequestPostEvent ==
    \E body \in EventBodies(now) :
        /\ pc = "idle"
        /\ route' = "/post/event"
        /\ op' = "event"
        /\ IF ~body.json \/ body.null
           THEN /\ pc' = "done"
                /\ result' = "error"
                /\ error' = "json"
                /\ message' = IF body.json
                              THEN <<"Cannot read properties of null">>
                              ELSE <<"Unexpected token in JSON">>
                /\ httpResponse' =
                      ErrorReply("/post/event",
                                 IF body.json
                                 THEN <<"Cannot read properties of null">>
                                 ELSE <<"Unexpected token in JSON">>)
                /\ UNCHANGED <<events, idx>>
           ELSE /\ pc' = "posting"
                /\ events' = <<body.event>>
                /\ idx' = 1
                /\ UNCHANGED <<result, error, message, httpResponse>>
        /\ UNCHANGED <<now, calendar, previewVars, daysParam, response,
                       daysAheadStr, uniqueDays, buttonDays, fetchDays, rawEvents,
                       allEventsToPost, offsetOf, attempted, posted, count>>

\* GET /api/events: the days parameter is parsed and checked, then
\* getWebEvents is called
RequestApiEvents ==
    \E param \in DaysParams :
        LET given == IF param.present /\ param.value # <<>> THEN param.value
                     ELSE DefaultDaysParam
            days  == ParseInt(given)
        IN  /\ pc = "idle"
            /\ route' = "/api/events"
            /\ daysParam' = param
            /\ IF days.nan \/ days.val < 1 \/ days.val > MaxListDays
               THEN /\ pc' = "done"
                    /\ httpResponse' = BadRequestReply
                    /\ UNCHANGED <<now, calendar, previewVars, response, message,
                                   op, daysAheadStr, uniqueDays, buttonDays,
                                   fetchDays, rawEvents, allEventsToPost,
                                   offsetOf, events, idx, attempted, posted,
                                   result, error, count>>
               ELSE /\ Fetch("web", days.val)
                    /\ UNCHANGED <<daysAheadStr, uniqueDays>>

NextHttp ==
    \/ RequestPost
    \/ RequestPostDay
    \/ RequestPostNext
    \/ RequestPostEvent
    \/ RequestApiEvents
    \/ Scheduled
    \/ FetchFail
    \/ CheckAndPostEvents
    \/ CheckAndPostDayEvents
    \/ CheckAndPostNextEvent
    \/ GetWebEvents
    \/ PostOk
    \/ PostFail

SpecHttp == InitHttp /\ [][NextHttp]_vars

----------------------------------------------------------------------------
(* The recurrence preview applied to listed events *)

\* key=value
Part(key, value) == <<key, "=">> \o value

RECURSIVE Rule(_)
\* the parts separated by semicolons
Rule(parts) ==
    IF parts = <<>> THEN <<>>
    ELSE IF Len(parts) = 1 THEN parts[1]
         ELSE parts[1] \o <<";">> \o Rule(Tail(parts))

WeeklyRule(interval) ==
    Rule(<<Part("FREQ", <<"WEEKLY">>), Part("INTERVAL", interval)>>)

MonthlyRule(byDay, bySetPos) ==
    Rule(<<Part("FREQ", <<"MONTHLY">>), Part("BYDAY", byDay),
           Part("BYSETPOS", bySetPos)>>)

\* the weekday codes of the rules
PreviewDays == {"SU", "TH", "FR"}

\* the rule strings of the listed events
PreviewRules ==
    {<<>>}
    \cup {Part("FREQ", <<f>>) : f \in {"WEEKLY", "DAILY", "YEARLY", "MONTHLY"}}
    \cup {Part("INTERVAL", <<"2">>)}
    \cup {WeeklyRule(<<ToString(i)>>) : i \in 0..MaxInterval}
    \cup {Rule(<<Part("FREQ", <<"DAILY">>), Part("INTERVAL", <<"2">>)>>)}
    \cup {Rule(<<Part("FREQ", <<"MONTHLY">>), Part("BYDAY", <<d>>)>>) :
             d \in PreviewDays}
    \cup {Rule(<<Part("FREQ", <<"MONTHLY">>), Part("BYSETPOS", <<"1">>)>>)}
    \cup {MonthlyRule(<<d>>, <<ToString(k)>>) : d \in PreviewDays, k \in 0..MaxSetPos}
    \cup {MonthlyRule(<<d>>, <<"-", ToString(k)>>) : d \in PreviewDays, k \in 1..2}
    \cup {MonthlyRule(<<"MO", ",", "TU">>, <<"1">>)}
    \cup {Rule(<<Part("FREQ", <<"YEARLY">>), Part("BYDAY", <<"TH">>),
                 Part("BYSETPOS", <<"1">>)>>)}

\* the days of new Date() in the page: 31 January, 1, 17 and 31 March and
\* 15 December 1970
PreviewNowDays == {30, 59, 75, 89, 348}

\* the days of the listed starts: 17 February, 17 and 18 March, 21 April 1970
PreviewStartDays == {47, 75, 76, 110}

InitPreview ==
    /\ previewEvent \in
          [rrule : PreviewRules,
           start : {ToISOString(d * TicksPerDay + t) :
                       d \in PreviewStartDays, t \in 0..(TicksPerDay - 1)}]
    /\ clientNow \in [kind : {"date"}, day : PreviewNowDays,
                       time : 0..(TicksPerDay - 1), ms : 0..(MsPerTick - 1)]
    /\ nextDate = NoDate
    /\ globalEvents = <<>>
    /\ pc = "idle"
    /\ now = 0 /\ calendar = <<>> /\ op = "none" /\ daysAheadStr = <<>>
    /\ uniqueDays = <<>> /\ buttonDays = <<>> /\ fetchDays = 0
    /\ rawEvents = <<>> /\ allEventsToPost = <<>> /\ offsetOf = <<>>
    /\ events = <<>> /\ idx = 0 /\ attempted = <<>> /\ posted = <<>>
    /\ result = "pending" /\ error = "none" /\ count = -1
    /\ response = NoResponse /\ message = <<>> /\ route = "none"
    /\ daysParam = NoParam /\ httpResponse = NoReply

\* displayEvents computes the estimate of a listed recurring event
DisplayEvents ==
    /\ pc = "idle"
    /\ pc' = "previewed"
    /\ globalEvents' = <<previewEvent>>
    /\ nextDate' = CalculateNextOccurrence(previewEvent, clientNow)
    /\ UNCHANGED <<now, calendar, requestVars, response, message, httpResponse,
                   op, daysAheadStr, uniqueDays, buttonDays, fetchDays, rawEvents,
                   allEventsToPost, offsetOf, events, idx, attempted, posted,
                   result, error, count, previewEvent, clientNow>>

NextPreview == DisplayEvents

SpecPreview == InitPreview /\ [][NextPreview]_vars

----------------------------------------------------------------------------
(* The deduplication step applied to arbitrary occurrence sequences *)

DedupOccurrences == [uid : {"a", "b"}, start : {ToISOString(t) : t \in 0..2}]

InitDedup ==
    /\ allEventsToPost \in SeqsUpTo(DedupOccurrences, MaxLen)
    /\ events = <<>>
    /\ pc = "idle"
    /\ now = 0 /\ calendar = <<>> /\ op = "none" /\ daysAheadStr = <<>>
    /\ uniqueDays = <<>> /\ buttonDays = <<>> /\ fetchDays = 0
    /\ rawEvents = <<>> /\ offsetOf = <<>> /\ idx = 0 /\ attempted = <<>>
    /\ posted = <<>> /\ result = "pending" /\ error = "none" /\ count = -1
    /\ response = NoResponse
    /\ message = <<>>
    /\ route = "none"
    /\ daysParam = NoParam
    /\ httpResponse = NoReply
    /\ previewEvent = NoEvent
    /\ globalEvents = <<>>
    /\ clientNow = NoDate
    /\ nextDate = NoDate

\* uniqueEvents = allEventsToPost.filter(...)
Deduplicate ==
    /\ pc = "idle"
    /\ pc' = "deduped"
    /\ events' = UniqueEvents(allEventsToPost)
    /\ UNCHANGED <<now, calendar, previewVars, requestVars, response, message,
                   httpResponse, op, daysAheadStr, uniqueDays, buttonDays,
                   fetchDays, rawEvents, allEventsToPost, offsetOf, idx,
                   attempted, posted, result, error, count>>

\* the same filter applied to its own output
DeduplicateAgain ==
    /\ pc = "deduped"
    /\ pc' = "again"
    /\ allEventsToPost' = events
    /\ events' = UniqueEvents(events)
    /\ UNCHANGED <<now, calendar, previewVars, requestVars, response, message,
                   httpResponse, op, daysAheadStr, uniqueDays, buttonDays,
                   fetchDays, rawEvents, offsetOf, idx, attempted, posted,
                   result, error, count>>

NextDedup == Deduplicate \/ DeduplicateAgain

SpecDedup == InitDedup /\ [][NextDedup]_vars

----------------------------------------------------------------------------
(* The DAYS_AHEAD normalization applied to arbitrary strings *)

\* the entries a DAYS_AHEAD string is built from:
\* "1", " 2 ", "15", "16", "-1", "a"
Tokens ==
    {<<"1">>, <<" ", "2", " ">>, <<"1", "5">>, <<"1", "6">>, <<"-", "1">>, <<"a">>}

\* further strings: "1,,2", "1.5", "2x,", "+3", "007", "-0", " ", "0,1,2,3,4"
MoreConfigs ==
    {<<"1", ",", ",", "2">>, <<"1", ".", "5">>, <<"2", "x", ",">>, <<"+", "3">>,
     <<"0", "0", "7">>, <<"-", "0">>, <<" ">>,
     <<"0", ",", "1", ",", "2", ",", "3", ",", "4">>}

DaysInputs ==
    {Join(ts) : ts \in SeqsUpTo(Tokens, MaxTokens)} \cup DaysConfigs \cup MoreConfigs

InitDays ==
    /\ daysAheadStr \in DaysInputs
    /\ uniqueDays = <<>>
    /\ buttonDays = <<>>
    /\ pc = "idle"
    /\ now = 0 /\ calendar = <<>> /\ op = "none" /\ fetchDays = 0
    /\ rawEvents = <<>> /\ allEventsToPost = <<>> /\ offsetOf = <<>>
    /\ events = <<>> /\ idx = 0 /\ attempted = <<>> /\ posted = <<>>
    /\ result = "pending" /\ error = "none" /\ count = -1
    /\ response = NoResponse
    /\ message = <<>>
    /\ route = "none"
    /\ daysParam = NoParam
    /\ httpResponse = NoReply
    /\ previewEvent = NoEvent
    /\ globalEvents = <<>>
    /\ clientNow = NoDate
    /\ nextDate = NoDate

\* the first statements of checkAndPostDayEvents, up to the fetch
NormalizeDays ==
    /\ pc = "idle"
    /\ pc' = "normalized"
    /\ uniqueDays' = UniqueDays(daysAheadStr)
    /\ fetchDays' = DayFetchDays(UniqueDays(daysAheadStr))
    /\ UNCHANGED <<now, calendar, previewVars, requestVars, response, message,
                   httpResponse, op, daysAheadStr, buttonDays, rawEvents,
                   allEventsToPost, offsetOf, events, idx, attempted, posted,
                   result, error, count>>

\* the first statements of getWebInterface
LabelButton ==
    /\ pc = "normalized"
    /\ pc' = "labelled"
    /\ buttonDays' = ButtonDays(daysAheadStr)
    /\ UNCHANGED <<now, calendar, previewVars, requestVars, response, message,
                   httpResponse, op, daysAheadStr, uniqueDays, fetchDays,
                   rawEvents, allEventsToPost, offsetOf, events, idx, attempted,
                   posted, result, error, count>>

NextDays == NormalizeDays \/ LabelButton

SpecDays == InitDays /\ [][NextDays]_vars

----------------------------------------------------------------------------
(* The selections side by side: the list of the page for a number of days,  *)
(* then what a poster selects from the same components at the same now      *)

InitModes == Init

\* getWebEvents(env, days) builds the list the page then holds
ListEvents ==
    /\ pc = "idle"
    /\ \E days \in WebDays : fetchDays' = days
    /\ rawEvents' = calendar
    /\ IF ParseThrows(calendar)
       THEN /\ pc' = "done"
            /\ result' = "error"
            /\ error' = "rule"
            /\ message' = RuleError(calendar)
            /\ UNCHANGED globalEvents
       ELSE /\ pc' = "listed"
            /\ globalEvents' = EventsToDisplay(calendar, now, fetchDays')
            /\ UNCHANGED <<result, error, message>>
    /\ UNCHANGED <<now, calendar, requestVars, response, httpResponse, op,
                   daysAheadStr, uniqueDays, buttonDays, allEventsToPost,
                   offsetOf, events, idx, attempted, posted, count,
                   previewEvent, clientNow, nextDate>>

\* checkAndPostNextEvent on the same components: the sorted list and the
\* one occurrence handed to postToMastodon
SelectNext ==
    /\ pc = "listed"
    /\ fetchDays = NextEventDays
    /\ pc' = "compared"
    /\ op' = "next"
    /\ events' = EventsToConsider(rawEvents, now)
    /\ attempted' = IF events' = <<>> THEN <<>> ELSE <<events'[1]>>
    /\ UNCHANGED <<now, calendar, previewVars, requestVars, response, message,
                   httpResponse, daysAheadStr, uniqueDays, buttonDays, fetchDays,
                   rawEvents, allEventsToPost, offsetOf, idx, posted, result,
                   error, count>>

\* checkAndPostEvents on the same components: the list in the order of the
\* loops, every element of which is handed to postToMastodon
SelectUpcoming ==
    /\ pc = "listed"
    /\ fetchDays * HoursPerDay = UpcomingHours
    /\ pc' = "compared"
    /\ op' = "post"
    /\ events' = EventsToPost(rawEvents, now)
    /\ attempted' = events'
    /\ UNCHANGED <<now, calendar, previewVars, requestVars, response, message,
                   httpResponse, daysAheadStr, uniqueDays, buttonDays, fetchDays,
                   rawEvents, allEventsToPost, offsetOf, idx, posted, result,
                   error, count>>

NextModes == ListEvents \/ SelectNext \/ SelectUpcoming

SpecModes == InitModes /\ [][NextModes]_vars

----------------------------------------------------------------------------
(* Properties *)

SamePair(x, y) == x.uid = y.uid /\ x.start = y.start

\* the positions of s that no earlier position matches in uid and start
FirstsOf(s) == {i \in 1..Len(s) : \A j \in 1..(i - 1) : ~SamePair(s[j], s[i])}

\* the k-th smallest element of a set of numbers
NthOf(S, k) == CHOOSE i \in S : Cardinality({j \in S : j <= i}) = k

\* out is s restricted to the positions FirstsOf(s), in order
IsFirstsOf(out, s) ==
    LET firsts == FirstsOf(s)
    IN  /\ Len(out) = Cardinality(firsts)
        /\ \A k \in 1..Len(out) : out[k] = s[NthOf(firsts, k)]

\* C1: the deduplication returns exactly the subsequence that keeps the
\* first element of each distinct (uid, start) pair, in the original order;
\* an element goes if and only if an earlier one has the same uid and the
\* same start, so elements that share a uid and differ in start all stay
C1_DedupKeepsFirsts ==
    pc = "deduped" =>
        /\ IsFirstsOf(events, allEventsToPost)
        /\ (\A i, j \in 1..Len(allEventsToPost) :
                i # j => allEventsToPost[i].start # allEventsToPost[j].start)
           => events = allEventsToPost

\* three occurrences of one uid with three starts are kept and a repeat of
\* one of them is removed
C1_Witness ==
    /\ pc = "deduped"
    /\ Len(allEventsToPost) = 4
    /\ Len(events) = 3
    /\ \A k \in 1..3 : events[k].uid = "a"
    /\ Cardinality({events[k].start : k \in 1..3}) = 3

\* C10: the deduplication applied to its own output returns it unchanged
C10_DedupIdempotent == pc = "again" => events = allEventsToPost

\* the second application ran on an output that kept several occurrences
\* of one uid
C10_Witness ==
    /\ pc = "again"
    /\ Len(allEventsToPost) >= 3
    /\ \E i, j \in 1..Len(allEventsToPost) :
          /\ i # j
          /\ allEventsToPost[i].uid = allEventsToPost[j].uid

----------------------------------------------------------------------------
(* Properties of the selection modes *)

Recurring(c) == c.rrule # Null

\* component c has an occurrence at instant t
OccursAt(c, t) ==
    CASE c.rrule = Null -> t = c.dtstart
      [] c.rrule = "FREQ=WEEKLY" ->
            t >= c.dtstart /\ (t - c.dtstart) % (WeekDays * TicksPerDay) = 0
      [] c.rrule = "FREQ=DAILY;COUNT=2" ->
            t \in {c.dtstart, c.dtstart + TicksPerDay}
      [] OTHER -> FALSE

\* the instants the properties range over
Horizon == 0..(now + (MaxOffset + 2) * TicksPerDay)

\* the instants at which a component of raw occurs or an element of list
\* starts
Relevant(list, raw) ==
    {t \in Horizon : \E i \in 1..Len(raw) : OccursAt(raw[i], t)}
    \cup {DateParse(list[k].start) : k \in 1..Len(list)}

\* the operation o has fetched, expanded every component and built its list
Built(o) == op = o /\ pc \in {"posting", "done"} /\ error \notin {"fetch", "rule"}

\* how many elements of list are the occurrence of uid u at instant t
CountOf(list, u, t) ==
    Cardinality({k \in 1..Len(list) :
                    list[k].uid = u /\ DateParse(list[k].start) = t})

UidsOf(raw) == {raw[i].uid : i \in 1..Len(raw)}

\* list holds, for every uid and instant, one element per component of that
\* uid that occurs at the instant and passes In, and nothing else
SelectsExactly(list, raw, In(_, _)) ==
    /\ \A k \in 1..Len(list) :
          list[k].uid \in UidsOf(raw) /\ DateParse(list[k].start) \in Horizon
    /\ \A u \in UidsOf(raw), t \in Relevant(list, raw) :
          CountOf(list, u, t) =
              Cardinality({i \in 1..Len(raw) :
                              raw[i].uid = u /\ OccursAt(raw[i], t) /\ In(raw[i], t)})

IsPrefix(a, b) == Len(a) <= Len(b) /\ \A k \in 1..Len(a) : a[k] = b[k]

NonDecreasing(list) ==
    \A i, j \in 1..Len(list) :
        i < j => DateParse(list[i].start) <= DateParse(list[j].start)

\* C8: checkAndPostEvents selects an occurrence of any component, recurring
\* or not, if and only if its instant t satisfies now < t < now + 360 hours;
\* nothing at now or at now + 360 hours is ever posted
C8_UpcomingWindowOpen ==
    Built("post") =>
        /\ SelectsExactly(events, rawEvents,
               LAMBDA c, t : now < t /\ t < now + (UpcomingHours \div HoursPerDay) * TicksPerDay)
        /\ \A k \in 1..Len(attempted) :
              /\ DateParse(attempted[k].start) # now
              /\ DateParse(attempted[k].start)
                    # now + (UpcomingHours \div HoursPerDay) * TicksPerDay

\* a recurring component with an occurrence at now and a component with an
\* occurrence at now + 360 hours were fetched and the posts went through
C8_Witness ==
    /\ Built("post") /\ pc = "done" /\ result = "ok" /\ Len(posted) >= 2
    /\ \E i \in 1..Len(rawEvents) :
          Recurring(rawEvents[i]) /\ OccursAt(rawEvents[i], now)
    /\ \E i \in 1..Len(rawEvents) : OccursAt(rawEvents[i], UpcomingLimit(now))

\* C3: checkAndPostNextEvent never selects and never posts an occurrence
\* whose start equals now, of a recurring or of a single component
C3_NextExcludesNow ==
    op = "next" =>
        /\ \A k \in 1..Len(events) : DateParse(events[k].start) # now
        /\ \A k \in 1..Len(attempted) : DateParse(attempted[k].start) # now

\* a recurring component with an occurrence at now and a single event at
\* now were fetched, and a later occurrence was posted
C3_Witness ==
    /\ Built("next") /\ pc = "done" /\ Len(posted) = 1
    /\ \E i \in 1..Len(rawEvents) :
          Recurring(rawEvents[i]) /\ OccursAt(rawEvents[i], now)
    /\ \E i \in 1..Len(rawEvents) :
          ~Recurring(rawEvents[i]) /\ rawEvents[i].dtstart = now

\* the candidates of the next-event mode: occurrences after now and within
\* 14 days, the 14-day instant itself counting for recurring components
NextCandidate(c, t) ==
    /\ OccursAt(c, t)
    /\ now < t
    /\ t <= now + NextEventDays * TicksPerDay
    /\ (t = now + NextEventDays * TicksPerDay => Recurring(c))

NextCandidates ==
    {<<i, t>> \in (1..Len(rawEvents)) \X Relevant(<<>>, rawEvents) :
        NextCandidate(rawEvents[i], t)}

\* the earliest candidate, the first in component order among equals
EarliestCandidate ==
    CHOOSE c \in NextCandidates :
        \A d \in NextCandidates :
            c[2] < d[2] \/ (c[2] = d[2] /\ c[1] <= d[1])

\* C4: checkAndPostNextEvent posts exactly one occurrence when a candidate
\* survives, the one with the least start instant, and among several with
\* that instant the first in component order; without a candidate it posts
\* nothing
C4_NextPostsEarliest ==
    Built("next") =>
        /\ pc = "posting" => attempted = <<>> /\ NextCandidates # {}
        /\ pc = "done" /\ NextCandidates = {} =>
              attempted = <<>> /\ posted = <<>> /\ result = "ok" /\ count = 0
        /\ pc = "done" /\ NextCandidates # {} =>
              /\ Len(attempted) = 1
              /\ attempted[1].uid = rawEvents[EarliestCandidate[1]].uid
              /\ DateParse(attempted[1].start) = EarliestCandidate[2]
              /\ IsPrefix(posted, attempted)
              /\ result = "ok" => posted = attempted /\ count = 1

\* two components of different uid share the least start instant and the
\* first of them was posted
C4_Witness ==
    /\ Built("next") /\ pc = "done" /\ result = "ok"
    /\ \E i, j \in 1..Len(rawEvents) :
          /\ i < j
          /\ rawEvents[i].uid # rawEvents[j].uid
          /\ <<i, EarliestCandidate[2]>> \in NextCandidates
          /\ <<j, EarliestCandidate[2]>> \in NextCandidates
          /\ EarliestCandidate[1] = i
          /\ posted = <<[uid |-> rawEvents[i].uid,
                         start |-> ToISOString(EarliestCandidate[2])]>>

\* C9: getWebEvents with parameter D returns exactly the occurrences with
\* now < t < now + D days, in non-decreasing order of start, each with the
\* raw rule string of its recurring component or with null for a single one
C9_ListRange ==
    Built("web") /\ pc = "done" =>
        /\ NonDecreasing(events)
        /\ \A k \in 1..Len(events) :
              /\ events[k].uid \in UidsOf(rawEvents)
              /\ DateParse(events[k].start) \in Horizon
              /\ events[k].rrule \in {rawEvents[i].rrule : i \in 1..Len(rawEvents)}
        /\ \A i \in 1..Len(rawEvents), t \in Relevant(events, rawEvents) :
              Cardinality({k \in 1..Len(events) :
                              /\ events[k].uid = rawEvents[i].uid
                              /\ events[k].rrule = rawEvents[i].rrule
                              /\ DateParse(events[k].start) = t})
              = Cardinality({j \in 1..Len(rawEvents) :
                              /\ rawEvents[j].uid = rawEvents[i].uid
                              /\ rawEvents[j].rrule = rawEvents[i].rrule
                              /\ OccursAt(rawEvents[j], t)
                              /\ now < t
                              /\ t < now + fetchDays * TicksPerDay})

\* a list with a recurring and a single occurrence, the later-listed
\* component first, while an occurrence at now + D days was left out
C9_Witness ==
    /\ Built("web") /\ pc = "done" /\ Len(events) >= 2
    /\ \E k, l \in 1..Len(events) : events[k].rrule = Null /\ events[l].rrule # Null
    /\ Len(rawEvents) = 2
    /\ events[1].uid = rawEvents[2].uid
    /\ events[1].uid # rawEvents[1].uid
    /\ \E i \in 1..Len(rawEvents) : OccursAt(rawEvents[i], now + fetchDays * TicksPerDay)

\* how many elements pushed for offset d are the occurrence of u at t
DayCountOf(d, u, t) ==
    Cardinality({p \in 1..Len(allEventsToPost) :
                    /\ offsetOf[p] = d
                    /\ allEventsToPost[p].uid = u
                    /\ DateParse(allEventsToPost[p].start) = t})

WindowStart(d) == StartOfDay(now) + d * TicksPerDay

WindowEnd(d) == WindowStart(d) + TicksPerDay

\* C6: for each normalized offset d the window runs from startOfDay(now) + d
\* days to one day later, and an occurrence of a recurring component is
\* selected for offset d if and only if windowStart <= t <= windowEnd
C6_DayWindowRecurring ==
    Built("day") =>
        /\ Range(offsetOf) \subseteq Range(uniqueDays)
        /\ \A k \in 1..Len(allEventsToPost) :
              DateParse(allEventsToPost[k].start) \in Horizon
        /\ \A d \in Range(uniqueDays), u \in UidsOf(rawEvents),
              t \in Relevant(allEventsToPost, rawEvents) :
              (\A i \in 1..Len(rawEvents) :
                  rawEvents[i].uid = u /\ OccursAt(rawEvents[i], t)
                     => Recurring(rawEvents[i]))
              => DayCountOf(d, u, t) =
                    Cardinality({i \in 1..Len(rawEvents) :
                                    /\ rawEvents[i].uid = u
                                    /\ OccursAt(rawEvents[i], t)
                                    /\ WindowStart(d) <= t
                                    /\ t <= WindowEnd(d)})

\* a recurring component has occurrences on both boundaries of a requested
\* window and between two windows, and both boundary occurrences were
\* selected for the offset
C6_Witness ==
    /\ Built("day") /\ Len(uniqueDays) = 2
    /\ \E i \in 1..Len(rawEvents), d \in Range(uniqueDays) :
          /\ Recurring(rawEvents[i])
          /\ OccursAt(rawEvents[i], WindowStart(d))
          /\ OccursAt(rawEvents[i], WindowEnd(d))
          /\ DayCountOf(d, rawEvents[i].uid, WindowStart(d)) = 1
          /\ DayCountOf(d, rawEvents[i].uid, WindowEnd(d)) = 1

\* an element pushed for offset d is the occurrence of component c at t
SelectedFor(d, c, t) ==
    \E p \in 1..Len(allEventsToPost) :
        /\ offsetOf[p] = d
        /\ allEventsToPost[p].uid = c.uid
        /\ DateParse(allEventsToPost[p].start) = t

\* C5: for every requested offset d and every component, recurring or not,
\* an occurrence at the midnight that ends day d is selected for offset d and
\* an occurrence one tick before the start of day d is not
C5_DayBoundaries ==
    Built("day") =>
        \A d \in Range(uniqueDays), i \in 1..Len(rawEvents) :
            /\ OccursAt(rawEvents[i], WindowEnd(d))
                  => SelectedFor(d, rawEvents[i], WindowEnd(d))
            /\ OccursAt(rawEvents[i], WindowStart(d) - 1)
                  => ~SelectedFor(d, rawEvents[i], WindowStart(d) - 1)

\* the window of the day poster as the code applies it to component c
DayIn(c, t, d) ==
    /\ WindowStart(d) <= t
    /\ t <= WindowEnd(d)
    /\ (t = WindowEnd(d) => Recurring(c))

\* the number of elements the components before the i-th push for offset d
PushedBefore(i, d) ==
    Cardinality({jt \in (1..(i - 1)) \X Relevant(<<>>, rawEvents) :
                    OccursAt(rawEvents[jt[1]], jt[2])
                    /\ DayIn(rawEvents[jt[1]], jt[2], d)})

\* the elements pushed for offset d, in order
Segment(d) ==
    LET P == {p \in 1..Len(allEventsToPost) : offsetOf[p] = d}
    IN  [k \in 1..Cardinality(P) |-> allEventsToPost[NthOf(P, k)]]

\* the list of the day poster runs by ascending offset and, within one
\* offset, by component order
DayOrder ==
    /\ \A p, q \in 1..Len(offsetOf) : p < q => offsetOf[p] <= offsetOf[q]
    /\ Len(offsetOf) = Len(allEventsToPost)
    /\ \A d \in Range(uniqueDays) :
          LET seg == Segment(d)
          IN  /\ Len(seg) = PushedBefore(Len(rawEvents) + 1, d)
              /\ \A i \in 1..Len(rawEvents) :
                    \A p \in (PushedBefore(i, d) + 1)..PushedBefore(i + 1, d) :
                        /\ seg[p].uid = rawEvents[i].uid
                        /\ OccursAt(rawEvents[i], DateParse(seg[p].start))
    /\ IsFirstsOf(events, allEventsToPost)

\* the posts so far are a prefix of the list, each accepted once, except the
\* last when it failed and ended the operation
PostsInOrder ==
    op \in {"post", "day"} =>
        /\ IsPrefix(attempted, events)
        /\ IsPrefix(posted, attempted)
        /\ pc = "posting" => Len(attempted) = idx - 1 /\ posted = attempted
        /\ error = "post" =>
              /\ pc = "done" /\ result = "error"
              /\ Len(posted) = Len(attempted) - 1
        /\ error # "post" => posted = attempted
        /\ pc = "done" /\ result = "ok" => posted = events

\* C2: the posts of checkAndPostEvents and checkAndPostDayEvents are issued
\* one at a time in list order (day poster: ascending offset, then component
\* order); when the k-th post fails the k-1 before it stay posted once each,
\* no later one is attempted, nothing is retried and the operation fails
C2_SequentialPosts ==
    [][/\ PostsInOrder'
       /\ pc # "done"
       /\ Len(attempted') <= Len(attempted) + 1
       /\ pc = "fetching" /\ Built("day")' => DayOrder'
       /\ pc = "posting" => UNCHANGED <<events, allEventsToPost, offsetOf>>]_vars

\* the third post of the day poster failed: two are posted, three were
\* attempted, and the list came from two offsets and lost a repeat
C2_Witness ==
    /\ op = "day" /\ pc = "done" /\ error = "post"
    /\ Len(events) >= 3 /\ Len(attempted) = 3 /\ Len(posted) = 2
    /\ Len(uniqueDays) = 2
    /\ Len(events) < Len(allEventsToPost)

\* the values and the validity of the comma-separated entries of a string
EntryValues(str) ==
    LET entries == Split(IF str = <<>> THEN <<"1">> ELSE str)
    IN  [i \in 1..Len(entries) |-> ParseInt(Trim(entries[i]))]

EntryValid(v) == ~v.nan /\ v.val \in 0..MaxOffset

\* the values of the first four valid entries
ExpectedDays(vals) ==
    LET valid == {i \in 1..Len(vals) : EntryValid(vals[i])}
    IN  {vals[i].val : i \in {i \in valid :
                                 Cardinality({j \in valid : j <= i}) <= MaxOffsets}}

Ascending(a) == \A i, j \in 1..Len(a) : i < j => a[i] < a[j]

ExampleString ==
    <<"1", ",", "1", ",", "2", ",", "a", "b", "c", ",", "2", "0", ",", "-", "1">>

\* C7: the normalized offsets are the ascending, duplicate-free values of
\* the first four entries that parse to an integer in [0, 15]; there are
\* between one and four of them; they are {1} when no entry is valid;
\* "1,1,2,abc,20,-1" gives {1, 2}; getWebInterface computes the same
C7_OffsetsNormalized ==
    LET vals == EntryValues(daysAheadStr)
        expected == ExpectedDays(vals)
    IN  /\ pc \in {"normalized", "labelled"} =>
              /\ Ascending(uniqueDays)
              /\ Len(uniqueDays) \in 1..MaxOffsets
              /\ Range(uniqueDays) \subseteq 0..MaxOffset
              /\ Range(uniqueDays) =
                    IF expected = {} THEN {DefaultOffset} ELSE expected
              /\ (\A i \in 1..Len(vals) : ~EntryValid(vals[i]))
                    => uniqueDays = <<DefaultOffset>>
              /\ daysAheadStr = ExampleString => uniqueDays = <<1, 2>>
        /\ pc = "labelled" => buttonDays = uniqueDays

\* five valid entries of which the fifth, a new value, is past the cap
C7_Witness ==
    LET vals == EntryValues(daysAheadStr)
    IN  /\ pc = "labelled"
        /\ Len(vals) = 5
        /\ \A i \in 1..5 : EntryValid(vals[i])
        /\ vals[5].val \notin Range(uniqueDays)
        /\ Len(uniqueDays) = 2

----------------------------------------------------------------------------
(* Properties of failures and of the fetch handler *)

\* the calendar provider answered with a non-success status
ProviderFailed == ~response.ok /\ response.status # "none"

\* the sequence of strings holds the string
Carries(msg, str) == \E i \in 1..Len(msg) : msg[i] = str

\* C11: when the calendar provider returns a non-success response, the
\* running operation (checkAndPostEvents, checkAndPostDayEvents,
\* checkAndPostNextEvent, getWebEvents) ends in an error whose message holds
\* the provider's status and body, and no post was issued in the run
C11_FetchFailureAborts ==
    ProviderFailed =>
        /\ op \in {"post", "day", "next", "web"}
        /\ pc = "done"
        /\ result = "error"
        /\ Carries(message, response.status)
        /\ Carries(message, response.body)
        /\ attempted = <<>>
        /\ posted = <<>>
        /\ rawEvents = <<>>

\* the provider answered 404 to the day poster while the calendar held a
\* single event one tick after now
C11_Witness ==
    /\ ProviderFailed /\ response.status = "404" /\ op = "day"
    /\ pc = "done"
    /\ \E i \in 1..Len(calendar) :
          calendar[i].rrule = Null /\ calendar[i].dtstart = now + 1

PostPaths == {"/post", "/post/day", "/post/tomorrow", "/post/next", "/post/event"}

\* the operation behind the request failed: the provider answered with a
\* non-success status, a rule string could not be parsed, the announcement
\* target rejected a post, or the body of the request could not be used
OperationFailed ==
    \/ ProviderFailed
    \/ ParseThrows(rawEvents)
    \/ Len(posted) < Len(attempted)
    \/ error = "json"

\* C12: every POST endpoint (/post, /post/day, /post/tomorrow, /post/next,
\* /post/event) answers a failed operation with status 500 and the error
\* message, and answers 200 only when the operation ended without an error
C12_PostStatus ==
    route \in PostPaths =>
        /\ pc # "done" => httpResponse = NoReply
        /\ pc = "done" =>
              /\ httpResponse.status \in {200, 500}
              /\ OperationFailed <=> httpResponse.status = 500
              /\ httpResponse.status = 500 =>
                    /\ message # <<>>
                    /\ \A i \in 1..Len(message) :
                          Carries(httpResponse.message, message[i])
              /\ httpResponse.status = 200 =>
                    result = "ok" /\ error = "none" /\ message = <<>>

\* POST /post/day answered 500 with the message of a rejected second post
C12_Witness ==
    /\ route = "/post/day" /\ pc = "done"
    /\ httpResponse.status = 500
    /\ Len(attempted) = 2 /\ Len(posted) = 1
    /\ Carries(httpResponse.message, "Unauthorized")

\* the string is a decimal numeral
IsNumeral(str) == str # <<>> /\ \A i \in 1..Len(str) : str[i] \in Digits

\* C18: GET /api/events accepts the days parameter exactly when it is an
\* integer from 1 to 24, uses 14 when the parameter is absent, and answers
\* every other value with status 400 without fetching the calendar
C18_DaysParameter ==
    route = "/api/events" /\ pc = "done" =>
        LET valid == IsNumeral(daysParam.value)
                     /\ DecimalValue(daysParam.value) \in 1..24
        IN  /\ daysParam.present /\ valid =>
                  /\ httpResponse.status # 400
                  /\ fetchDays = DecimalValue(daysParam.value)
            /\ ~daysParam.present =>
                  httpResponse.status # 400 /\ fetchDays = 14
            /\ daysParam.present /\ ~valid =>
                  /\ httpResponse.status = 400
                  /\ response = NoResponse
                  /\ rawEvents = <<>>

----------------------------------------------------------------------------
(* Properties of the recurrence preview *)

\* the rule string has a part name=... with a non-empty value
HasKey(rrule, name) ==
    \E i \in 1..(Len(rrule) - 2) :
        /\ rrule[i] = name /\ rrule[i + 1] = "="
        /\ (i = 1 \/ rrule[i - 1] = ";")
        /\ rrule[i + 2] # ";"

\* the rule string has the part FREQ=f
FreqIs(rrule, f) ==
    \E i \in 1..(Len(rrule) - 2) :
        /\ rrule[i] = "FREQ" /\ rrule[i + 1] = "=" /\ rrule[i + 2] = f
        /\ (i = 1 \/ rrule[i - 1] = ";")
        /\ (i + 2 = Len(rrule) \/ rrule[i + 3] = ";")

PreviewStart == StartDate(previewEvent)

\* C13: calculateNextOccurrence returns null for a MONTHLY rule whose
\* BYSETPOS is negative, such as BYDAY=FR;BYSETPOS=-1
C13_NegativeSetPos ==
    pc = "previewed" =>
        \A d \in PreviewDays, k \in 1..2 :
            previewEvent.rrule = MonthlyRule(<<d>>, <<"-", ToString(k)>>)
                => nextDate = NoDate

\* C14 as claimed: null for every rule whose FREQ is neither WEEKLY nor
\* MONTHLY and for every MONTHLY rule that lacks BYDAY or lacks BYSETPOS
C14_NoEstimate ==
    pc = "previewed" =>
        /\ ~FreqIs(previewEvent.rrule, "WEEKLY")
              /\ ~FreqIs(previewEvent.rrule, "MONTHLY") => nextDate = NoDate
        /\ FreqIs(previewEvent.rrule, "MONTHLY")
              /\ (~HasKey(previewEvent.rrule, "BYDAY")
                  \/ ~HasKey(previewEvent.rrule, "BYSETPOS")) => nextDate = NoDate

\* the first day of the month after now's on which the weekday falls
FirstInNextMonth(weekday) ==
    LET first == FirstOfMonth(GetMonth(clientNow.day) + 1)
    IN  CHOOSE x \in first..(first + 6) : GetDay(x) = weekday

\* C14 amended: null for every rule whose FREQ is neither WEEKLY nor MONTHLY
\* and for every MONTHLY rule that lacks BYDAY; a MONTHLY rule whose BYDAY is
\* one weekday code and that lacks BYSETPOS is estimated as with BYSETPOS=1,
\* on the first such weekday of the month after now's
C14_NoEstimateAmended ==
    pc = "previewed" =>
        /\ ~FreqIs(previewEvent.rrule, "WEEKLY")
              /\ ~FreqIs(previewEvent.rrule, "MONTHLY") => nextDate = NoDate
        /\ FreqIs(previewEvent.rrule, "MONTHLY")
              /\ ~HasKey(previewEvent.rrule, "BYDAY") => nextDate = NoDate
        /\ \A d \in PreviewDays :
              previewEvent.rrule =
                  Rule(<<Part("FREQ", <<"MONTHLY">>), Part("BYDAY", <<d>>)>>)
              => /\ nextDate.kind = "date"
                 /\ nextDate.day = FirstInNextMonth(DayMap[d])
                 /\ nextDate.time = PreviewStart.time

\* a MONTHLY rule with BYSETPOS and without BYDAY got no estimate
C14_Witness ==
    /\ pc = "previewed"
    /\ previewEvent.rrule =
          Rule(<<Part("FREQ", <<"MONTHLY">>), Part("BYSETPOS", <<"1">>)>>)
    /\ nextDate = NoDate

\* C15: for a MONTHLY rule with BYDAY one weekday code and BYSETPOS = k >= 1
\* the estimate is the k-th occurrence of that weekday within the month
\* after now's, always in that month, at the time of day of the start
C15_MonthlyOrdinal ==
    pc = "previewed" =>
        \A d \in PreviewDays, k \in 1..MaxSetPos :
            previewEvent.rrule = MonthlyRule(<<d>>, <<ToString(k)>>)
            => LET month == GetMonth(clientNow.day) + 1
               IN  /\ nextDate.kind = "date"
                   /\ GetMonth(nextDate.day) = month
                   /\ GetDay(nextDate.day) = DayMap[d]
                   /\ Cardinality({x \in FirstOfMonth(month)..nextDate.day :
                                      GetDay(x) = DayMap[d]}) = k
                   /\ nextDate.time = PreviewStart.time

\* C16: for a WEEKLY rule with interval 1 the estimate is the earliest day
\* strictly after now's day whose weekday is that of the start, with the
\* hour, minute and second of the start; it is later than now and at most 7
\* days after now's day
C16_WeeklyNext ==
    pc = "previewed"
    /\ previewEvent.rrule \in {Part("FREQ", <<"WEEKLY">>), WeeklyRule(<<"1">>)}
    => /\ nextDate.kind = "date"
       /\ nextDate.day > clientNow.day
       /\ GetDay(nextDate.day) = GetDay(PreviewStart.day)
       /\ \A x \in (clientNow.day + 1)..(nextDate.day - 1) :
             GetDay(x) # GetDay(PreviewStart.day)
       /\ nextDate.time = PreviewStart.time
       /\ GetTime(nextDate) > GetTime(clientNow)
       /\ nextDate.day - clientNow.day \in 1..WeekDays

\* now falls on the weekday of the start, later in the day than the start:
\* the estimate is a week after now's day
C16_Witness ==
    /\ pc = "previewed"
    /\ previewEvent.rrule = Part("FREQ", <<"WEEKLY">>)
    /\ GetDay(clientNow.day) = GetDay(PreviewStart.day)
    /\ clientNow.time > PreviewStart.time
    /\ nextDate.day = clientNow.day + WeekDays

\* C17: for a WEEKLY rule with INTERVAL = N > 1 the estimate differs from
\* the start by a whole number of weeks that is a multiple of N, whatever
\* now and the start are
C17_WeeklyInterval ==
    pc = "previewed" =>
        \A n \in 2..MaxInterval :
            previewEvent.rrule = WeeklyRule(<<ToString(n)>>)
            => /\ nextDate.kind = "date"
               /\ nextDate.time = PreviewStart.time
               /\ \E w \in -60..60 :
                     nextDate.day - PreviewStart.day = w * n * WeekDays

----------------------------------------------------------------------------
(* Properties across the selection modes *)

\* the list holds the occurrence of uid u at instant t
SelectedIn(list, u, t) ==
    \E k \in 1..Len(list) : list[k].uid = u /\ DateParse(list[k].start) = t

\* no other fetched component of the same uid occurs at t
Alone(i, t) ==
    \A j \in 1..Len(rawEvents) :
        j # i /\ rawEvents[j].uid = rawEvents[i].uid => ~OccursAt(rawEvents[j], t)

\* C19: at every call site a non-recurring start and a recurring occurrence
\* at the same instant are both selected or both rejected: the single
\* event is tested against the window with the inclusivity of the
\* recurring path
C19_SameInclusivity ==
    \A i, j \in 1..Len(rawEvents) :
        LET t == rawEvents[i].dtstart
        IN  /\ ~Recurring(rawEvents[i]) /\ Recurring(rawEvents[j])
            /\ rawEvents[i].uid # rawEvents[j].uid
            /\ OccursAt(rawEvents[j], t)
            /\ Alone(i, t) /\ Alone(j, t)
            => /\ Built("post") \/ Built("next") \/ (Built("web") /\ pc = "done")
                     => (SelectedIn(events, rawEvents[i].uid, t)
                            <=> SelectedIn(events, rawEvents[j].uid, t))
               /\ Built("day") =>
                     \A d \in Range(uniqueDays) :
                         SelectedFor(d, rawEvents[i], t)
                            <=> SelectedFor(d, rawEvents[j], t)

\* C20: in one run of checkAndPostDayEvents no two posts issued share both
\* uid and start instant, also when a recurring occurrence lies on the
\* midnight shared by two adjacent requested windows and both produce it
C20_NoDuplicatePosts ==
    op = "day" =>
        \A p, q \in 1..Len(attempted) :
            p # q =>
                \/ attempted[p].uid # attempted[q].uid
                \/ DateParse(attempted[p].start) # DateParse(attempted[q].start)

\* a recurring occurrence on the midnight between two requested days was
\* pushed for both offsets and posted once, along with another post
C20_Witness ==
    /\ Built("day") /\ pc = "done" /\ result = "ok" /\ Len(posted) >= 2
    /\ \E p, q \in 1..Len(allEventsToPost) :
          /\ offsetOf[p] + 1 = offsetOf[q]
          /\ allEventsToPost[p] = allEventsToPost[q]
          /\ DateParse(allEventsToPost[p].start) = WindowEnd(offsetOf[p])
          /\ \E i \in 1..Len(rawEvents) :
                /\ Recurring(rawEvents[i])
                /\ rawEvents[i].uid = allEventsToPost[p].uid
          /\ CountOf(posted, allEventsToPost[p].uid,
                     DateParse(allEventsToPost[p].start)) = 1

----------------------------------------------------------------------------
(* Properties of failures inside a run *)

\* the rule strings RRule.parseString accepts
WellFormedRules == {"FREQ=WEEKLY", "FREQ=DAILY;COUNT=2"}

\* the positions of the fetched components whose rule string is malformed
Offending ==
    {i \in 1..Len(rawEvents) :
        rawEvents[i].rrule # Null /\ rawEvents[i].rrule \notin WellFormedRules}

\* C21: in every posting mode, when the rule of any fetched component is
\* malformed the whole operation fails and no post was issued in the run,
\* wherever the offending component stands among the others
C21_MalformedRuleAborts ==
    op \in {"post", "day", "next"} /\ Offending # {} =>
        /\ pc = "done"
        /\ result = "error"
        /\ error = "rule"
        /\ attempted = <<>>
        /\ posted = <<>>

\* the offending component came last, after a single event one tick after
\* now that every posting mode with that window would have posted
C21_Witness ==
    /\ op = "post" /\ pc = "done"
    /\ Offending = {2}
    /\ rawEvents[1].rrule = Null /\ rawEvents[1].dtstart = now + 1

\* C22: the scheduled handler never lets an error out: after a failed
\* fetch, an unparsable rule or a rejected post in checkAndPostDayEvents it
\* logs the error and completes, and the posts accepted before the failure
\* stay as they are
C22_ScheduledSwallows ==
    [][route' = "scheduled" =>
          /\ httpResponse'.kind # "rejected"
          /\ pc' # "done" => httpResponse' = NoReply
          /\ pc' = "done" /\ OperationFailed' =>
                /\ httpResponse'.kind = "logged"
                /\ \A i \in 1..Len(message') :
                      Carries(httpResponse'.message, message'[i])
          /\ pc' = "done" /\ ~OperationFailed' => httpResponse'.kind = "completed"
          /\ IsPrefix(posted, posted')]_vars

\* the second post of a scheduled run was rejected: the first stays
\* posted and the handler logged the error and completed
C22_Witness ==
    /\ route = "scheduled" /\ pc = "done"
    /\ error = "post" /\ Len(attempted) = 2 /\ Len(posted) = 1
    /\ httpResponse.kind = "logged"

----------------------------------------------------------------------------
(* Properties of the configuration and of the fetched range *)

\* C23: for every DAYS_AHEAD string (empty, non-numeric, negative, out of
\* range, more than four entries) the day poster raises no error and goes
\* on to the fetch with a non-empty offset set, which is {1} whenever no
\* entry of the string is valid
C23_ConfigNeverFails ==
    pc \in {"normalized", "labelled"} =>
        LET vals == EntryValues(daysAheadStr)
        IN  /\ result # "error" /\ error = "none"
            /\ uniqueDays # <<>>
            /\ fetchDays >= 1
            /\ (\A i \in 1..Len(vals) : ~EntryValid(vals[i]))
                  => uniqueDays = <<DefaultOffset>> /\ fetchDays = DefaultOffset + 1

\* five entries, out of range, negative and non-numeric, gave {1}
C23_Witness ==
    LET vals == EntryValues(daysAheadStr)
    IN  /\ pc = "normalized"
        /\ Len(vals) = 5
        /\ vals[1].val = 16 /\ vals[2].val = -1 /\ vals[3].nan
        /\ \A i \in 1..5 : ~EntryValid(vals[i])
        /\ uniqueDays = <<1>>

\* the largest element of a non-empty sequence of numbers
Largest(a) == CHOOSE m \in Range(a) : \A x \in Range(a) : x <= m

\* C24: checkAndPostDayEvents requests a range of exactly (largest
\* normalized offset + 1) days starting at now, and the upper boundary of
\* every requested day window is no later than the end of that range
C24_DayFetchRange ==
    op = "day" /\ pc # "idle" =>
        /\ fetchDays = Largest(uniqueDays) + 1
        /\ FetchRangeStart(now) = now
        /\ FetchRangeEnd(now, fetchDays) = now + (Largest(uniqueDays) + 1) * TicksPerDay
        /\ \A d \in Range(uniqueDays) : WindowEnd(d) <= FetchRangeEnd(now, fetchDays)

\* offsets {1, 2} at a midnight: the last window ends where the fetched
\* range ends
C24_Witness ==
    /\ op = "day" /\ pc = "fetching"
    /\ uniqueDays = <<1, 2>>
    /\ now = StartOfDay(now)
    /\ WindowEnd(2) = FetchRangeEnd(now, fetchDays)

\* C25: in each of the four modes the range requested from the provider,
\* [now, now + days * 24h], contains the whole window the mode then applies:
\* (now, now + 360h) for checkAndPostEvents, every requested day window with
\* its start for checkAndPostDayEvents, [now, now + 14 days] for
\* checkAndPostNextEvent and (now, now + D days) for getWebEvents
C25_FetchCoversWindow ==
    pc # "idle" =>
        LET first == FetchRangeStart(now)
            last  == FetchRangeEnd(now, fetchDays)
        IN  /\ op = "post" =>
                  first <= now
                  /\ now + (UpcomingHours \div HoursPerDay) * TicksPerDay <= last
            /\ op = "day" =>
                  \A d \in Range(uniqueDays) :
                      first <= WindowStart(d) /\ WindowEnd(d) <= last
            /\ op = "next" =>
                  first <= now /\ now + NextEventDays * TicksPerDay <= last
            /\ op = "web" =>
                  first <= now /\ now + fetchDays * TicksPerDay <= last

\* C26: calculateNextOccurrence terminates for every event and every rule
\* string, in particular for MONTHLY rules whose BYDAY is not one of the
\* seven plain weekday codes and for BYSETPOS values larger than the number of
\* matching weekdays in a month
C26_PreviewTerminates ==
    pc = "previewed" => nextDate # Hang

(* Properties of the reported count *)

\* C27: when checkAndPostDayEvents or checkAndPostNextEvent returns
\* normally, the count it reports is the number of posts issued in the run:
\* the day poster reports the number of deduplicated occurrences and has
\* posted each of them once, the next-event poster reports 1 with exactly
\* one post, and count 0 is reported exactly when no post was issued
C27_CountIsPosts ==
    pc = "done" /\ result = "ok" /\ op \in {"day", "next"} =>
        /\ count = Len(attempted)
        /\ posted = attempted
        /\ op = "day" =>
              /\ posted = events
              /\ \A i, j \in 1..Len(events) :
                    events[i].uid = events[j].uid /\ events[i].start = events[j].start
                        => i = j
        /\ op = "next" =>
              /\ count \in {0, 1}
              /\ count = 1 => posted = <<events[1]>>
        /\ count = 0 <=> attempted = <<>>

\* the day poster returns after posting fewer occurrences than it selected
C27_Witness ==
    /\ pc = "done" /\ result = "ok" /\ op = "day"
    /\ Len(allEventsToPost) > Len(events)
    /\ count = Len(events) /\ count >= 1
    /\ posted = events

----------------------------------------------------------------------------
(* Properties of the selections side by side *)

\* C28: for the same now and the same raw components, whenever getWebEvents
\* with days = 14 returns a non-empty list, the occurrence that
\* checkAndPostNextEvent posts has the uid and the start instant of the
\* first element of that list
C28_NextIsFirstListed ==
    pc = "compared" /\ op = "next" /\ globalEvents # <<>> =>
        /\ Len(attempted) = 1
        /\ attempted[1].uid = globalEvents[1].uid
        /\ DateParse(attempted[1].start) = DateParse(globalEvents[1].start)

\* two components listed, the later one first in the calendar, and a third
\* occurrence on the closing boundary that only the next-event list holds
C28_Witness ==
    /\ pc = "compared" /\ op = "next"
    /\ Len(globalEvents) >= 2
    /\ Len(events) > Len(globalEvents)
    /\ globalEvents[1].uid # rawEvents[1].uid
    /\ attempted = <<events[1]>>

\* C29: for the same now and the same raw components, checkAndPostEvents
\* selects exactly the multiset of (uid, start) occurrences that
\* getWebEvents returns for days = 15 (360 hours): the two lists differ
\* only in their order and in the rrule field
C29_UpcomingIsListed ==
    pc = "compared" /\ op = "post" =>
        /\ fetchDays * HoursPerDay = UpcomingHours
        /\ Len(events) = Len(globalEvents)
        /\ \A k \in 1..Len(events) :
              LET u == events[k].uid
                  t == DateParse(events[k].start)
              IN  CountOf(events, u, t) = CountOf(globalEvents, u, t)
        /\ \A k \in 1..Len(globalEvents) :
              LET u == globalEvents[k].uid
                  t == DateParse(globalEvents[k].start)
              IN  CountOf(events, u, t) = CountOf(globalEvents, u, t)
        /\ \A k \in 1..Len(events) : DOMAIN events[k] = {"uid", "start"}
        /\ \A k \in 1..Len(globalEvents) :
              DOMAIN globalEvents[k] = {"uid", "start", "rrule"}

\* the two lists hold the same occurrences of both kinds in different orders
C29_Witness ==
    /\ pc = "compared" /\ op = "post"
    /\ Len(events) >= 3
    /\ \E k \in 1..Len(events) :
          DateParse(events[k].start) # DateParse(globalEvents[k].start)
    /\ \E k \in 1..Len(globalEvents) : globalEvents[k].rrule # Null
    /\ \E k \in 1..Len(globalEvents) : globalEvents[k].rrule = Null

====
